---- MODULE Spec2Model ----
(***************************************************************************)
(* A model of the DDEX XML validator facade (ddex_validator/validator.py)  *)
(* and of the result model (ddex_validator/models.py).                     *)
(*                                                                         *)
(* One behaviour is about one input document in one schema environment.    *)
(* Two validator instances exist, one constructed with strict_mode=False   *)
(* and one with strict_mode=True, both with the same enable_business_rules *)
(* setting.  A validation call is executed step by step, pc holding the    *)
(* position of the running call inside validate_string.                    *)
(*                                                                         *)
(* Two further specifications share the module.  CacheSpec is about        *)
(* threads that call _get_schema of one validator at the same time.        *)
(* RulesSpec is about the checkers of ddex_validator/rules.py as functions *)
(* of the parsed tree: one behaviour is one call of one checker.           *)
(***************************************************************************)
EXTENDS Integers, Sequences, FiniteSets, TLC

VARIABLES
    doc,                    \* the input text and the environment it meets
    enable_business_rules,  \* DDEXXMLValidator.enable_business_rules
    schema_cache,           \* DDEXXMLValidator._schema_cache, per validator
    cur,                    \* the validator whose validate_string is running
    arg,                    \* the enable_business_rules argument of the calls
    pc,                     \* position of the running call
    use_business_rules,     \* local of validate_string
    ddex_version,           \* local of validate_string
    message_type,           \* local of validate_string
    errors,                 \* local of validate_string
    warnings,               \* local of validate_string
    info,                   \* local of validate_string
    schema_errors,          \* local of validate_string
    ran,                    \* checker categories invoked by the running call
    result,                 \* what validate_string returned
    results,                \* the last outcome of validate_string, per validator
    entry,                  \* the public method the caller invoked
    file_paths,             \* the paths given to validate_file / validate_batch
    file_result,            \* what the last validate_file returned
    batch_results,          \* local results of validate_batch
    shared_cache,           \* CacheSpec: _schema_cache of the shared validator
    created,                \* CacheSpec: the XMLSchema objects constructed
    t_pc,                   \* CacheSpec: position of each thread in _get_schema
    t_path,                 \* CacheSpec: schema_path argument of each thread
    t_schema,               \* CacheSpec: the schema object each thread holds
    rule,                   \* RulesSpec: the checker that is called
    root,                   \* RulesSpec: the parsed tree it is called on
    rule_result,            \* RulesSpec: what the checker returned
    session,                \* SessionSpec: the files, and the calls made so far
    stats,                  \* StatsSpec: the fields of a ValidationStatistics
    added                   \* StatsSpec: the results given to add_result

callvars == <<cur, arg, use_business_rules, ddex_version, message_type, errors,
              warnings, info, schema_errors, ran, result>>

filevars == <<entry, file_paths, file_result, batch_results>>

cachevars == <<shared_cache, created, t_pc, t_path, t_schema>>

rulevars == <<rule, root, rule_result>>

validatorvars == <<doc, enable_business_rules, schema_cache, pc, results,
                   callvars, filevars>>

\* the variables of the specifications of sequential use and of statistics
extravars == <<session, stats, added>>

vars == <<validatorvars, cachevars, rulevars, extravars>>

None == "None"

\* no ValidationResult (yet)
NoResult == [absent |-> TRUE]

\* an exception left the call instead of a ValidationResult
Raised == [raised |-> TRUE]

----------------------------------------------------------------------------
(* Bounds of the model *)

\* the most findings (issues the checkers can raise) one document holds
MaxFindings == 2
\* the most entries the lxml error log holds for one invalid document
MaxLog == 2
\* the most paths one validate_batch call is given
MaxBatch == 2
\* the most findings of a document that is validated from a file
MaxFileFindings == 0
\* the threads that share one validator
MaxThreads == 3
\* the most elements below the root of a tree given to a checker
MaxElements == 3
\* the most digits after the decimal point of a seconds value
FractionDigits == 3
\* the most digits of a numeral whose value is computed
SmallDigits == 4
\* the most calls made on one validator in sequence
MaxCalls == 3

\* the number of add_result calls on one ValidationStatistics
MaxAdded == 2

----------------------------------------------------------------------------
(* models.py *)

ERROR == "ERROR"
WARNING == "WARNING"
INFO == "INFO"

\* ValidationIssue: src is the detecting step (0: the facade itself, c: the
\* checker category c), key tells issues of one source apart (it stands for
\* message, element_path and context)
ValidationIssue(sev, code, src, key) ==
    [severity |-> sev, error_code |-> code, src |-> src, key |-> key]

ValidationResult(valid, errs, warns, inf, mt, ver) ==
    [is_valid |-> valid, errors |-> errs, warnings |-> warns, info |-> inf,
     message_type |-> mt, ddex_version |-> ver, file_path |-> None]

\* ValidationResult.failure(error_message, error_code)
failure(code) ==
    ValidationResult(FALSE, <<ValidationIssue(ERROR, code, 0, 0)>>,
                     <<>>, <<>>, None, None)

----------------------------------------------------------------------------
(* The inputs: a document and the schema environment it is validated in *)

\* the checker categories in the order _validate_business_rules calls them
CategoryName ==
    <<"identifiers", "durations", "dates", "territories", "languages",
      "required_elements", "business_logic", "technical_details">>

Categories == 1..Len(CategoryName)

RAISE == "RAISE"

\* what a checker category can find: the severities its issues carry
\* (rules.py: territories and languages only warn), or an exception escaping
\* the checker (validate_durations: OverflowError on a Duration whose hour
\* count does not fit a float)
Kinds(c) ==
    IF CategoryName[c] \in {"territories", "languages"}
    THEN {WARNING, RAISE}
    ELSE {ERROR, WARNING, RAISE}

\* one error code per category and severity stands for the codes of rules.py
CodeOf(c, sev) ==
    CASE CategoryName[c] = "identifiers" ->
            IF sev = ERROR THEN "INVALID_ISRC" ELSE "SUSPICIOUS_ISRC_YEAR"
      [] CategoryName[c] = "durations" ->
            IF sev = ERROR THEN "INVALID_DURATION" ELSE "UNUSUALLY_LONG_DURATION"
      [] CategoryName[c] = "dates" ->
            IF sev = ERROR THEN "INVALID_DATE" ELSE "FUTURE_DATE"
      [] CategoryName[c] = "territories" -> "INVALID_TERRITORY"
      [] CategoryName[c] = "languages" -> "INVALID_LANGUAGE"
      [] CategoryName[c] = "required_elements" ->
            IF sev = ERROR THEN "MISSING_RELEASE_LIST" ELSE "MISSING_RESOURCE_LIST"
      [] CategoryName[c] = "business_logic" ->
            IF sev = ERROR THEN "MISSING_USE_TYPE" ELSE "MISSING_RESOURCES"
      [] OTHER ->
            IF sev = ERROR THEN "INVALID_BITRATE" ELSE "UNUSUAL_BITRATE"

Findings == UNION {[cat : {c}, kind : Kinds(c)] : c \in Categories}

\* the findings of a document, grouped by the category that detects them
FindingSeqs ==
    {f \in UNION {[1..n -> Findings] : n \in 0..MaxFindings} :
        \A i \in 1..(Len(f) - 1) : f[i].cat <= f[i + 1].cat}

MessageTypes == {"NewReleaseMessage"}
Versions == {None, "3.8.2"}

\* the schema file every lookup ends at when no other file is there
SchemaPath == "ddex_3-8-2.xsd"

\* the schema environment: what the schema path lookup (and the path it
\* returns), the schema load and the schema validation of this document do.
\* "invalid" stands for the three ways that end in one
\* SCHEMA_VALIDATION_ERROR (XMLSchemaException, DocumentInvalid with an empty
\* log, a failing lxml fallback), "lxml" for the lxml fallback reporting log
\* entries
SchemaEnvs ==
    {e \in [lookup : {"found", "none", "raises"},
            path : {SchemaPath},
            load : {"ok", "fails"},
            validate : {"valid", "invalid", "lxml"},
            log : 0..MaxLog] :
        /\ e.lookup # "found" => e.load = "ok"
        /\ (e.lookup # "found" \/ e.load # "ok") => e.validate = "valid"
        /\ (e.validate = "lxml") <=> (e.log > 0)}

NoEnv ==
    [lookup |-> "none", path |-> SchemaPath, load |-> "ok", validate |-> "valid",
     log |-> 0]

\* a text that does not parse has nothing else to it: both detectors of
\* utils.py fail the same parse and return None
Unparseable ==
    {[parse |-> p, version |-> None, mtype |-> None, env |-> NoEnv,
      findings |-> <<>>] : p \in {"syntax", "other"}}

Parseable ==
    [parse : {"ok"}, version : Versions, mtype : MessageTypes,
     env : SchemaEnvs, findings : FindingSeqs]

Docs == Unparseable \cup Parseable

Validators == {"normal", "strict"}

\* DDEXXMLValidator.strict_mode, set by the constructor
strict_mode(v) == v = "strict"

----------------------------------------------------------------------------
(* validator.py: the parts of validate_string *)

\* mutant: the schema is loaded anew although it is in the cache
_get_schema_reloads(d, cache) ==
    IF d.env.load = "ok"
    THEN [raised |-> FALSE, cache |-> cache \cup {d.env.path}, loaded |-> TRUE]
    ELSE [raised |-> TRUE, cache |-> cache, loaded |-> FALSE]

\* _get_schema: the schema for the path from the cache, loading it first when
\* it is not there; a failed load raises and leaves the cache as it was.
\* loaded tells that an XMLSchema object was built
_get_schema(d, cache) ==
    IF d.env.path \in cache
    THEN [raised |-> FALSE, cache |-> cache, loaded |-> FALSE]
    ELSE IF d.env.load = "ok"
         THEN [raised |-> FALSE, cache |-> cache \cup {d.env.path}, loaded |-> TRUE]
         ELSE [raised |-> TRUE, cache |-> cache, loaded |-> FALSE]

SchemaIssue(code, key) == ValidationIssue(ERROR, code, 0, key)

\* schema.validate and the handlers of lines 275-336
SchemaValidationErrors(d) ==
    CASE d.env.validate = "valid" -> <<>>
      [] d.env.validate = "lxml" ->
            [k \in 1..d.env.log |-> SchemaIssue("SCHEMA_VALIDATION_ERROR", k)]
      [] OTHER -> <<SchemaIssue("SCHEMA_VALIDATION_ERROR", 1)>>

\* _validate_schema: escaped tells that an exception left the method.  The
\* handler of line 338 formats schema_path, which is unbound when
\* _get_schema_path itself raised: the handler then raises UnboundLocalError
_validate_schema(d, cache) ==
    CASE d.env.lookup = "raises" ->
            [errors |-> <<>>, escaped |-> TRUE, cache |-> cache, loaded |-> FALSE]
      [] d.env.lookup = "none" ->
            [errors |-> <<SchemaIssue("SCHEMA_NOT_FOUND", 1)>>,
             escaped |-> FALSE, cache |-> cache, loaded |-> FALSE]
      [] OTHER ->
            LET got == _get_schema(d, cache) IN
            IF got.raised
            THEN [errors |-> <<SchemaIssue("SCHEMA_LOAD_ERROR", 1)>>,
                  escaped |-> FALSE, cache |-> got.cache, loaded |-> got.loaded]
            ELSE [errors |-> SchemaValidationErrors(d),
                  escaped |-> FALSE, cache |-> got.cache, loaded |-> got.loaded]

\* mutant: SCHEMA_NOT_FOUND is left out of the critical codes
critical_error_codes_withoutNotFound ==
    {"SCHEMA_LOAD_ERROR", "XML_SYNTAX_ERROR", "XML_PARSE_ERROR"}

critical_error_codes ==
    {"SCHEMA_NOT_FOUND", "SCHEMA_LOAD_ERROR", "XML_SYNTAX_ERROR", "XML_PARSE_ERROR"}

\* mutant: all() where the code has any()
_has_critical_errors_all(errs) ==
    \A i \in 1..Len(errs) : errs[i].error_code \in critical_error_codes

_has_critical_errors(errs) ==
    \E i \in 1..Len(errs) : errs[i].error_code \in critical_error_codes

\* the positions in the document's findings that category c detects
FindingsOf(d, c) == {i \in 1..Len(d.findings) : d.findings[i].cat = c}

\* whether the checker of category c raises on this document
CheckerRaises(d, c) == \E i \in FindingsOf(d, c) : d.findings[i].kind = RAISE

RECURSIVE IssuesFrom(_, _, _)
IssuesFrom(d, c, i) ==
    IF i > Len(d.findings) THEN <<>>
    ELSE IF d.findings[i].cat = c
         THEN <<ValidationIssue(d.findings[i].kind,
                                CodeOf(c, d.findings[i].kind), c, i)>>
              \o IssuesFrom(d, c, i + 1)
         ELSE IssuesFrom(d, c, i + 1)

\* the issue list the checker of category c returns
CheckerIssues(d, c) == IssuesFrom(d, c, 1)

\* whether _validate_business_rules calls the checker of category c at all
\* (line 370: the required-element check needs a message type)
Dispatched(c, mt) == CategoryName[c] = "required_elements" => mt # None

\* _validate_business_rules from category c on, issues being the list built
\* so far: one try block around all the calls, so that the first checker to
\* raise ends the dispatch with one BUSINESS_RULE_PROCESSING_ERROR
RECURSIVE RunCheckers(_, _, _, _, _)
RunCheckers(d, mt, c, issues, called) ==
    IF c > Len(CategoryName)
    THEN [issues |-> issues, ran |-> called]
    ELSE IF ~Dispatched(c, mt)
         THEN RunCheckers(d, mt, c + 1, issues, called)
         ELSE IF CheckerRaises(d, c)
              THEN [issues |-> Append(issues,
                        ValidationIssue(ERROR, "BUSINESS_RULE_PROCESSING_ERROR", c, 0)),
                    ran |-> called \cup {c}]
              ELSE RunCheckers(d, mt, c + 1, issues \o CheckerIssues(d, c),
                               called \cup {c})

_validate_business_rules(d, mt) == RunCheckers(d, mt, 1, <<>>, {})

\* mutant: a promoted warning is also kept in warnings
RECURSIVE Merge_keepsWarning(_, _, _, _)
Merge_keepsWarning(issues, i, strict, acc) ==
    IF i > Len(issues) THEN acc
    ELSE LET issue == issues[i] IN
         Merge_keepsWarning(issues, i + 1, strict,
               CASE issue.severity = ERROR ->
                        [acc EXCEPT !.errors = Append(@, issue)]
                 [] issue.severity = WARNING ->
                        IF strict
                        THEN [acc EXCEPT !.errors =
                                 Append(@, [issue EXCEPT !.severity = ERROR]),
                                         !.warnings = Append(@, issue)]
                        ELSE [acc EXCEPT !.warnings = Append(@, issue)]
                 [] OTHER -> [acc EXCEPT !.info = Append(@, issue)])

\* mutant: the promoted warnings are collected apart and put behind the errors
RECURSIVE Merge_promotesLast(_, _, _, _)
Merge_promotesLast(issues, i, strict, acc) ==
    IF i > Len(issues)
    THEN IF strict
         THEN [acc EXCEPT !.errors =
                  @ \o [k \in 1..Len(acc.warnings) |->
                           [acc.warnings[k] EXCEPT !.severity = ERROR]],
                          !.warnings = <<>>]
         ELSE acc
    ELSE LET issue == issues[i] IN
         Merge_promotesLast(issues, i + 1, strict,
               CASE issue.severity = ERROR ->
                        [acc EXCEPT !.errors = Append(@, issue)]
                 [] issue.severity = WARNING ->
                        [acc EXCEPT !.warnings = Append(@, issue)]
                 [] OTHER -> [acc EXCEPT !.info = Append(@, issue)])

\* mutant: a promoted warning is put into errors as it is, its severity field
\* still reading WARNING
RECURSIVE Merge_keepsSeverity(_, _, _, _)
Merge_keepsSeverity(issues, i, strict, acc) ==
    IF i > Len(issues) THEN acc
    ELSE LET issue == issues[i] IN
         Merge_keepsSeverity(issues, i + 1, strict,
               CASE issue.severity = ERROR ->
                        [acc EXCEPT !.errors = Append(@, issue)]
                 [] issue.severity = WARNING ->
                        IF strict
                        THEN [acc EXCEPT !.errors = Append(@, issue)]
                        ELSE [acc EXCEPT !.warnings = Append(@, issue)]
                 [] OTHER -> [acc EXCEPT !.info = Append(@, issue)])

\* the merge loop of lines 132-142: each issue goes to the list of its
\* severity, a WARNING being promoted to ERROR under strict_mode
RECURSIVE Merge(_, _, _, _)
Merge(issues, i, strict, acc) ==
    IF i > Len(issues) THEN acc
    ELSE LET issue == issues[i] IN
         Merge(issues, i + 1, strict,
               CASE issue.severity = ERROR ->
                        [acc EXCEPT !.errors = Append(@, issue)]
                 [] issue.severity = WARNING ->
                        IF strict
                        THEN [acc EXCEPT !.errors =
                                 Append(@, [issue EXCEPT !.severity = ERROR])]
                        ELSE [acc EXCEPT !.warnings = Append(@, issue)]
                 [] OTHER -> [acc EXCEPT !.info = Append(@, issue)])

\* mutant: the detected version is not recorded
DetectedInfo_typeOnly(ver, mt) ==
    IF mt # None
    THEN <<ValidationIssue(INFO, "MESSAGE_TYPE_DETECTED", 0, 2)>> ELSE <<>>

\* the INFO issues of lines 152-165
DetectedInfo(ver, mt) ==
    (IF ver # None
     THEN <<ValidationIssue(INFO, "DDEX_VERSION_DETECTED", 0, 1)>> ELSE <<>>)
    \o (IF mt # None
        THEN <<ValidationIssue(INFO, "MESSAGE_TYPE_DETECTED", 0, 2)>> ELSE <<>>)

----------------------------------------------------------------------------
(* The state machine of one validate_string call *)

Terminal == {"PARSE_FAILED", "DONE", "RAISED"}

Args == {"None", "True", "False"}

\* no thread is in _get_schema (the specifications without threads)
CacheIdle ==
    /\ shared_cache = <<>>
    /\ created = <<>>
    /\ t_pc = <<>>
    /\ t_path = <<>>
    /\ t_schema = <<>>

\* no checker is called on its own (the specifications without RulesSpec)
RulesIdle ==
    /\ rule = None
    /\ root = <<>>
    /\ rule_result = NoResult

\* no sequence of calls is followed and no statistics are kept (the
\* specifications without them)
ExtraIdle ==
    /\ session = <<>>
    /\ stats = <<>>
    /\ added = <<>>

Init ==
    /\ CacheIdle
    /\ RulesIdle
    /\ ExtraIdle
    /\ doc \in Docs
    /\ enable_business_rules \in BOOLEAN
    /\ schema_cache = [v \in Validators |-> {}]
    /\ cur = "normal"
    /\ arg \in Args
    /\ pc = "IDLE"
    /\ use_business_rules = enable_business_rules
    /\ ddex_version = None
    /\ message_type = None
    /\ errors = <<>>
    /\ warnings = <<>>
    /\ info = <<>>
    /\ schema_errors = <<>>
    /\ ran = {}
    /\ result = NoResult
    /\ results = [v \in Validators |-> NoResult]
    /\ entry = "none"
    /\ file_paths = <<>>
    /\ file_result = NoResult
    /\ batch_results = <<>>

\* control enters validate_string of validator v
Enter(v) ==
    /\ cur' = v
    /\ arg' = arg
    /\ pc' = "START"
    /\ use_business_rules' = enable_business_rules
    /\ ddex_version' = None
    /\ message_type' = None
    /\ errors' = <<>>
    /\ warnings' = <<>>
    /\ info' = <<>>
    /\ schema_errors' = <<>>
    /\ ran' = {}
    /\ result' = NoResult

\* a caller invokes v.validate_string(xml_content, enable_business_rules=arg)
\* on a validator that has not validated the document yet
validate_string(v) ==
    /\ pc \in Terminal \cup {"IDLE"}
    /\ entry \in {"none", "string"}
    /\ results[v] = NoResult
    /\ entry' = "string"
    /\ Enter(v)
    /\ UNCHANGED <<cachevars, rulevars, extravars, doc, enable_business_rules, schema_cache, results,
                   file_paths, file_result, batch_results>>

\* lines 96-107: the effective business-rule setting, the detection of
\* version and message type, the empty issue lists
Start ==
    /\ pc = "START"
    /\ use_business_rules' =
          (IF arg # "None" THEN arg = "True" ELSE enable_business_rules)
    /\ ddex_version' = doc.version
    /\ message_type' = doc.mtype
    /\ errors' = <<>>
    /\ warnings' = <<>>
    /\ info' = <<>>
    /\ pc' = "PARSE"
    /\ UNCHANGED <<cachevars, rulevars, extravars, doc, enable_business_rules, schema_cache, cur, arg,
                   schema_errors, ran, result, results, filevars>>

\* mutant: a parse failure is recorded as an error and the call goes on
Parse_goesOn ==
    /\ pc = "PARSE"
    /\ errors' = IF doc.parse = "ok" THEN errors
                 ELSE Append(errors, ValidationIssue(ERROR, "XML_SYNTAX_ERROR", 0, 0))
    /\ pc' = "SCHEMA_CHECK"
    /\ UNCHANGED <<cachevars, rulevars, extravars, doc, enable_business_rules, schema_cache, cur, arg,
                   use_business_rules, ddex_version, message_type,
                   warnings, info, schema_errors, ran, result, results,
                   filevars>>

\* lines 109-121: the parse; a failure returns ValidationResult.failure
Parse ==
    /\ pc = "PARSE"
    /\ \/ /\ doc.parse = "ok"
          /\ pc' = "SCHEMA_CHECK"
          /\ UNCHANGED <<result, results>>
       \/ /\ doc.parse # "ok"
          /\ result' = failure(IF doc.parse = "syntax"
                               THEN "XML_SYNTAX_ERROR" ELSE "XML_PARSE_ERROR")
          /\ results' = [results EXCEPT ![cur] = result']
          /\ pc' = "PARSE_FAILED"
    /\ UNCHANGED <<cachevars, rulevars, extravars, doc, enable_business_rules, schema_cache, cur, arg,
                   use_business_rules, ddex_version, message_type, errors,
                   warnings, info, schema_errors, ran, filevars>>

\* lines 123-125: schema validation; an exception escaping _validate_schema
\* leaves validate_string, which has no handler around the call
SchemaCheck ==
    /\ pc = "SCHEMA_CHECK"
    /\ LET r == _validate_schema(doc, schema_cache[cur]) IN
       /\ schema_cache' = [schema_cache EXCEPT ![cur] = r.cache]
       /\ \/ /\ r.escaped
             /\ pc' = "RAISED"
             /\ results' = [results EXCEPT ![cur] = Raised]
             /\ UNCHANGED <<schema_errors, errors>>
          \/ /\ ~r.escaped
             /\ schema_errors' = r.errors
             /\ errors' = errors \o r.errors
             /\ pc' = IF _has_critical_errors(r.errors) THEN "CRITICAL" ELSE "OK"
             /\ UNCHANGED results
    /\ UNCHANGED <<cachevars, rulevars, extravars, doc, enable_business_rules, cur, arg, use_business_rules,
                   ddex_version, message_type, warnings, info, ran, result,
                   filevars>>

\* mutant: the critical schema errors are not looked at
RunsBusinessRules_ungated == use_business_rules

\* mutant: the argument of the call is not looked at
RunsBusinessRules_ignoresArgument ==
    enable_business_rules /\ ~_has_critical_errors(schema_errors)

\* line 128: whether the business rules run
RunsBusinessRules == use_business_rules /\ ~_has_critical_errors(schema_errors)

Gate ==
    /\ pc \in {"CRITICAL", "OK"}
    /\ pc' = IF RunsBusinessRules THEN "BUSINESS_RULES" ELSE "ASSEMBLE"
    /\ UNCHANGED <<cachevars, rulevars, extravars, doc, enable_business_rules, schema_cache, cur, arg,
                   use_business_rules, ddex_version, message_type, errors,
                   warnings, info, schema_errors, ran, result, results,
                   filevars>>

\* lines 129-150: the checkers and the merge of their issues.  The handler of
\* line 144 is never entered: _validate_business_rules catches what its
\* checkers raise and the merge loop raises nothing
BusinessRules ==
    /\ pc = "BUSINESS_RULES"
    /\ LET b == _validate_business_rules(doc, message_type)
           m == Merge(b.issues, 1, strict_mode(cur),
                      [errors |-> errors, warnings |-> warnings, info |-> info])
       IN /\ errors' = m.errors
          /\ warnings' = m.warnings
          /\ info' = m.info
          /\ ran' = b.ran
    /\ pc' = "ASSEMBLE"
    /\ UNCHANGED <<cachevars, rulevars, extravars, doc, enable_business_rules, schema_cache, cur, arg,
                   use_business_rules, ddex_version, message_type,
                   schema_errors, result, results, filevars>>

\* mutant: warnings count against validity
Assembled_warningsCount(errs, warns, inf, mt, ver) ==
    ValidationResult(Len(errs) = 0 /\ Len(warns) = 0, errs, warns, inf, mt, ver)

\* ValidationResult(is_valid=len(errors) == 0, ...) of lines 169-177
Assembled(errs, warns, inf, mt, ver) ==
    ValidationResult(Len(errs) = 0, errs, warns, inf, mt, ver)

\* lines 152-177: the INFO issues and the result
Assemble ==
    /\ pc = "ASSEMBLE"
    /\ info' = info \o DetectedInfo(ddex_version, message_type)
    /\ result' = Assembled(errors, warnings, info', message_type, ddex_version)
    /\ results' = [results EXCEPT ![cur] = result']
    /\ pc' = "DONE"
    /\ UNCHANGED <<cachevars, rulevars, extravars, doc, enable_business_rules, schema_cache, cur, arg,
                   use_business_rules, ddex_version, message_type, errors,
                   warnings, schema_errors, ran, filevars>>

----------------------------------------------------------------------------
(* validate_file and validate_batch *)

\* what a path names: no file, a file that cannot be opened or read, a file
\* that is not UTF-8 text, or a file holding the document
FilePaths == {"missing.xml", "locked.xml", "binary.xml", "good.xml"}

PathLists == UNION {[1..n -> FilePaths] : n \in 0..MaxBatch}

\* the path the running validate_file was given
CurrentPath == file_paths[Len(batch_results) + 1]

\* validate_file returns r: to the caller, or to the loop of validate_batch
\* which appends it to results (line 196)
ReturnFromFile(r) ==
    /\ file_result' = r
    /\ IF entry = "batch"
       THEN /\ batch_results' = Append(batch_results, r)
            /\ pc' = "BATCH"
       ELSE /\ batch_results' = batch_results
            /\ pc' = "FILE_DONE"

\* a caller invokes v.validate_file(path, enable_business_rules=arg)
validate_file(v, path) ==
    /\ pc = "IDLE"
    /\ Len(doc.findings) <= MaxFileFindings
    /\ entry' = "file"
    /\ file_paths' = <<path>>
    /\ cur' = v
    /\ pc' = "FILE"
    /\ UNCHANGED <<cachevars, rulevars, extravars, doc, enable_business_rules, schema_cache, results, arg,
                   use_business_rules, ddex_version, message_type, errors,
                   warnings, info, schema_errors, ran, result, file_result,
                   batch_results>>

\* a caller invokes v.validate_batch(paths, enable_business_rules=arg)
validate_batch(v, paths) ==
    /\ pc = "IDLE"
    /\ Len(doc.findings) <= MaxFileFindings
    /\ entry' = "batch"
    /\ file_paths' = paths
    /\ batch_results' = <<>>
    /\ cur' = v
    /\ pc' = "BATCH"
    /\ UNCHANGED <<cachevars, rulevars, extravars, doc, enable_business_rules, schema_cache, results, arg,
                   use_business_rules, ddex_version, message_type, errors,
                   warnings, info, schema_errors, ran, result, file_result>>

\* mutant: the loop ends at the first failed result
BatchLoop_stopsOnFailure ==
    /\ pc = "BATCH"
    /\ pc' = IF /\ Len(batch_results) < Len(file_paths)
                /\ (batch_results # <<>> => batch_results[Len(batch_results)].is_valid)
             THEN "FILE" ELSE "BATCH_DONE"
    /\ UNCHANGED <<cachevars, rulevars, extravars, doc, enable_business_rules, schema_cache, results,
                   callvars, filevars>>

\* lines 193-205: the loop of validate_batch.  Its handler of line 197 is
\* never entered, validate_file catching every Exception itself
BatchLoop ==
    /\ pc = "BATCH"
    /\ pc' = IF Len(batch_results) < Len(file_paths) THEN "FILE" ELSE "BATCH_DONE"
    /\ UNCHANGED <<cachevars, rulevars, extravars, doc, enable_business_rules, schema_cache, results,
                   callvars, filevars>>

\* lines 46-57 and the handlers of lines 65-83: the file is missing, cannot
\* be read (an OSError), or does not decode (UnicodeDecodeError, and again in
\* the utf-8-sig retry, which decodes the same bytes)
FileOpen ==
    /\ pc = "FILE"
    /\ CurrentPath # "good.xml"
    /\ ReturnFromFile(failure(CASE CurrentPath = "missing.xml" -> "FILE_NOT_FOUND"
                               [] CurrentPath = "locked.xml" -> "FILE_READ_ERROR"
                               [] OTHER -> "FILE_ENCODING_ERROR"))
    /\ UNCHANGED <<cachevars, rulevars, extravars, doc, enable_business_rules, schema_cache, results,
                   callvars, entry, file_paths>>

\* line 59: validate_file hands the text it read to validate_string
FileValidate ==
    /\ pc = "FILE"
    /\ CurrentPath = "good.xml"
    /\ Enter(cur)
    /\ UNCHANGED <<cachevars, rulevars, extravars, doc, enable_business_rules, schema_cache, results,
                   filevars>>

\* lines 59-63 and 79-83: validate_string returned, or raised into the
\* handler of line 79
FileWrap ==
    /\ pc \in Terminal
    /\ entry \in {"file", "batch"}
    /\ ReturnFromFile(IF pc = "RAISED"
                      THEN failure("FILE_READ_ERROR")
                      ELSE [result EXCEPT !.file_path = CurrentPath])
    /\ UNCHANGED <<cachevars, rulevars, extravars, doc, enable_business_rules, schema_cache, results,
                   callvars, entry, file_paths>>

Next ==
    \/ \E v \in Validators : validate_string(v)
    \/ Start
    \/ Parse
    \/ SchemaCheck
    \/ Gate
    \/ BusinessRules
    \/ Assemble
    \/ \E v \in Validators, path \in FilePaths : validate_file(v, path)
    \/ \E v \in Validators, paths \in PathLists : validate_batch(v, paths)
    \/ BatchLoop
    \/ FileOpen
    \/ FileValidate
    \/ FileWrap

Spec == Init /\ [][Next]_vars

\* a validator on which no validation runs (the specifications without it)
ValidatorIdle ==
    /\ doc = [parse |-> "ok", version |-> None, mtype |-> "NewReleaseMessage",
              env |-> NoEnv, findings |-> <<>>]
    /\ enable_business_rules = TRUE
    /\ schema_cache = [v \in Validators |-> {}]
    /\ cur = "normal"
    /\ arg = "None"
    /\ pc = "IDLE"
    /\ use_business_rules = TRUE
    /\ ddex_version = None
    /\ message_type = None
    /\ errors = <<>>
    /\ warnings = <<>>
    /\ info = <<>>
    /\ schema_errors = <<>>
    /\ ran = {}
    /\ result = NoResult
    /\ results = [v \in Validators |-> NoResult]
    /\ entry = "none"
    /\ file_paths = <<>>
    /\ file_result = NoResult
    /\ batch_results = <<>>

----------------------------------------------------------------------------
(* One validator used in sequence: validate_string and clear_cache *)

\* the schema files a lookup can end at
SchemaFiles == {"ddex_3-8-2.xsd", "ddex_4-1.xsd"}

\* the schema directory: the files that exist, those of them xmlschema can
\* load, and whether the lookup itself raises
Directories ==
    {f \in [exists : SUBSET SchemaFiles, loadable : SUBSET SchemaFiles,
            raises : BOOLEAN] : f.loadable \subseteq f.exists}

\* utils.py, find_schema_file: the file names tried for a version, in order
\* (of the names of possible_files those that can be in the directory)
possible_files(version) ==
    IF version = "4.1" THEN <<"ddex_4-1.xsd", "ddex_3-8-2.xsd">>
    ELSE <<"ddex_3-8-2.xsd">>

\* find_schema_file: the first of the names that exists, None without one
find_schema_file(files, version) ==
    LET names == possible_files(version)
        hits == {k \in 1..Len(names) : names[k] \in files.exists}
    IN IF hits = {} THEN None
       ELSE names[CHOOSE k \in hits : \A m \in hits : k <= m]

\* _get_schema_path of a validator constructed without schema_path: the file
\* of the detected version, or else the file of version 3.8.2
_get_schema_path(files, ddex_ver) ==
    LET schema_path == IF ddex_ver # None THEN find_schema_file(files, ddex_ver)
                       ELSE None
    IN IF schema_path # None THEN schema_path
       ELSE find_schema_file(files, "3.8.2")

\* the schema environment a document of the given version and validity meets
\* in a directory
EnvOf(files, ddex_ver, validity) ==
    LET schema_path == _get_schema_path(files, ddex_ver)
        found == ~files.raises /\ schema_path # None
        loads == found /\ schema_path \in files.loadable
    IN [lookup |-> IF files.raises THEN "raises"
                   ELSE IF schema_path = None THEN "none" ELSE "found",
        path |-> IF schema_path = None THEN SchemaPath ELSE schema_path,
        load |-> IF found /\ ~loads THEN "fails" ELSE "ok",
        validate |-> IF loads THEN validity ELSE "valid",
        log |-> 0]

\* the findings of the documents validated in a sequence of calls: none, an
\* error, a warning, or a Duration on which validate_durations raises
SessionFindings ==
    {<<>>,
     <<[cat |-> 1, kind |-> ERROR]>>,
     <<[cat |-> 1, kind |-> WARNING]>>,
     <<[cat |-> 2, kind |-> RAISE]>>}

\* the documents validated in a sequence of calls: texts that do not parse,
\* and documents of three versions, valid or not against the schema files,
\* with the findings the checkers make in them
SessionDocs(files) ==
    Unparseable \cup
    {[parse |-> "ok", version |-> v, mtype |-> "NewReleaseMessage",
      env |-> EnvOf(files, v, validity), findings |-> f] :
        v \in {None, "3.8.2", "4.1"},
        validity \in {"valid", "invalid"},
        f \in SessionFindings}

\* get_cache_info: the number of cached schemas and their paths
get_cache_info(cache) ==
    [cached_schemas |-> Cardinality(cache), schema_paths |-> cache]

\* mutant: the schema validation is skipped when the schema was cached
ValidateString_trustsCache(d, cache, strict, ubr) ==
    IF d.parse # "ok"
    THEN [result |-> failure(IF d.parse = "syntax" THEN "XML_SYNTAX_ERROR"
                             ELSE "XML_PARSE_ERROR"),
          cache |-> cache, looked |-> FALSE, loaded |-> FALSE]
    ELSE LET r == _validate_schema(d, cache)
             errs == IF d.env.path \in cache THEN <<>> ELSE r.errors
             runs == ubr /\ ~_has_critical_errors(errs)
             b == IF runs THEN _validate_business_rules(d, d.mtype).issues ELSE <<>>
             m == Merge(b, 1, strict, [errors |-> errs, warnings |-> <<>>,
                                       info |-> <<>>])
         IN IF r.escaped
            THEN [result |-> Raised, cache |-> r.cache, looked |-> TRUE,
                  loaded |-> r.loaded]
            ELSE [result |-> Assembled(m.errors, m.warnings,
                                       m.info \o DetectedInfo(d.version, d.mtype),
                                       d.mtype, d.version),
                  cache |-> r.cache, looked |-> TRUE, loaded |-> r.loaded]

\* mutant: the default schema is fetched before the text is parsed
ValidateString_loadsFirst(d, cache, strict, ubr) ==
    LET r == _validate_schema(d, cache)
        runs == ubr /\ ~_has_critical_errors(r.errors)
        b == IF runs THEN _validate_business_rules(d, d.mtype).issues ELSE <<>>
        m == Merge(b, 1, strict, [errors |-> r.errors, warnings |-> <<>>,
                                  info |-> <<>>])
    IN IF d.parse # "ok"
       THEN [result |-> failure(IF d.parse = "syntax" THEN "XML_SYNTAX_ERROR"
                                ELSE "XML_PARSE_ERROR"),
             cache |-> cache \cup {SchemaPath}, looked |-> TRUE,
             loaded |-> SchemaPath \notin cache]
       ELSE IF r.escaped
            THEN [result |-> Raised, cache |-> r.cache, looked |-> TRUE,
                  loaded |-> r.loaded]
            ELSE [result |-> Assembled(m.errors, m.warnings,
                                       m.info \o DetectedInfo(d.version, d.mtype),
                                       d.mtype, d.version),
                  cache |-> r.cache, looked |-> TRUE, loaded |-> r.loaded]

\* validate_string as one call, lines 96-177: what it returns (Raised when an
\* exception leaves it), the cache it leaves, and whether it looked for a
\* schema path and built a schema object.  ubr is use_business_rules
ValidateString(d, cache, strict, ubr) ==
    IF d.parse # "ok"
    THEN [result |-> failure(IF d.parse = "syntax" THEN "XML_SYNTAX_ERROR"
                             ELSE "XML_PARSE_ERROR"),
          cache |-> cache, looked |-> FALSE, loaded |-> FALSE]
    ELSE LET r == _validate_schema(d, cache)
             runs == ubr /\ ~_has_critical_errors(r.errors)
             b == IF runs THEN _validate_business_rules(d, d.mtype).issues ELSE <<>>
             m == Merge(b, 1, strict, [errors |-> r.errors, warnings |-> <<>>,
                                       info |-> <<>>])
         IN IF r.escaped
            THEN [result |-> Raised, cache |-> r.cache, looked |-> TRUE,
                  loaded |-> r.loaded]
            ELSE [result |-> Assembled(m.errors, m.warnings,
                                       m.info \o DetectedInfo(d.version, d.mtype),
                                       d.mtype, d.version),
                  cache |-> r.cache, looked |-> TRUE, loaded |-> r.loaded]

\* the validator is constructed (line 33: an empty cache) in a directory
SessionInit ==
    /\ CacheIdle
    /\ RulesIdle
    /\ stats = <<>>
    /\ added = <<>>
    /\ doc = [parse |-> "ok", version |-> None, mtype |-> "NewReleaseMessage",
              env |-> NoEnv, findings |-> <<>>]
    /\ enable_business_rules \in BOOLEAN
    /\ schema_cache = [v \in Validators |-> {}]
    /\ cur \in Validators
    /\ arg \in Args
    /\ pc = "IDLE"
    /\ use_business_rules = enable_business_rules
    /\ ddex_version = None
    /\ message_type = None
    /\ errors = <<>>
    /\ warnings = <<>>
    /\ info = <<>>
    /\ schema_errors = <<>>
    /\ ran = {}
    /\ result = NoResult
    /\ results = [v \in Validators |-> NoResult]
    /\ entry = "none"
    /\ file_paths = <<>>
    /\ file_result = NoResult
    /\ batch_results = <<>>
    /\ \E files \in Directories :
          session = [files |-> files, loads |-> <<>>, calls |-> 0, op |-> "none",
                     before |-> get_cache_info({}), looked |-> FALSE,
                     loaded |-> FALSE]

\* the caller runs cur.validate_string(d, enable_business_rules=arg) to its
\* end
SessionValidate(d) ==
    /\ session.calls < MaxCalls
    /\ LET ubr == IF arg # "None" THEN arg = "True" ELSE enable_business_rules
           call == ValidateString(d, schema_cache[cur], strict_mode(cur), ubr)
       IN /\ doc' = d
          /\ use_business_rules' = ubr
          /\ result' = call.result
          /\ results' = [results EXCEPT ![cur] = call.result]
          /\ schema_cache' = [schema_cache EXCEPT ![cur] = call.cache]
          /\ pc' = IF d.parse # "ok" THEN "PARSE_FAILED"
                   ELSE IF call.result = Raised THEN "RAISED" ELSE "DONE"
          /\ session' = [session EXCEPT
                            !.loads = IF call.loaded THEN Append(@, d.env.path) ELSE @,
                            !.calls = @ + 1,
                            !.op = "validate_string",
                            !.before = get_cache_info(schema_cache[cur]),
                            !.looked = call.looked,
                            !.loaded = call.loaded]
    /\ UNCHANGED <<cachevars, rulevars, stats, added, enable_business_rules, cur,
                   arg, ddex_version, message_type, errors, warnings, info,
                   schema_errors, ran, filevars>>

\* clear_cache, lines 475-477
clear_cache ==
    /\ session.calls < MaxCalls
    /\ schema_cache' = [schema_cache EXCEPT ![cur] = {}]
    /\ session' = [session EXCEPT
                      !.loads = <<>>,
                      !.calls = @ + 1,
                      !.op = "clear_cache",
                      !.before = get_cache_info(schema_cache[cur]),
                      !.looked = FALSE,
                      !.loaded = FALSE]
    /\ UNCHANGED <<cachevars, rulevars, stats, added, doc, enable_business_rules,
                   pc, results, callvars, filevars>>

SessionNext ==
    \/ \E d \in SessionDocs(session.files) : SessionValidate(d)
    \/ clear_cache

SessionSpec == SessionInit /\ [][SessionNext]_vars

----------------------------------------------------------------------------
(* models.py: ValidationStatistics *)

\* ValidationStatistics.__init__, lines 255-263: the counters and the three
\* dictionaries (a dictionary is a function on the keys it holds)
NewStatistics ==
    [total_files |-> 0, valid_files |-> 0, invalid_files |-> 0,
     total_errors |-> 0, total_warnings |-> 0,
     error_codes |-> <<>>, message_types |-> <<>>, ddex_versions |-> <<>>]

\* the truth value Python gives an Optional[str]: None and "" are false
Truthy(value) == value # None /\ value # ""

\* dict[key] = dict.get(key, 0) + 1
Increment(dict, key) ==
    IF key \in DOMAIN dict THEN [dict EXCEPT ![key] = @ + 1]
    ELSE [k \in DOMAIN dict \cup {key} |-> IF k = key THEN 1 ELSE dict[k]]

\* the loop of lines 280-282 from the i-th error on
RECURSIVE CountErrorCodes(_, _, _)
CountErrorCodes(dict, errs, i) ==
    IF i > Len(errs) THEN dict
    ELSE CountErrorCodes(IF Truthy(errs[i].error_code)
                         THEN Increment(dict, errs[i].error_code)
                         ELSE dict,
                         errs, i + 1)

\* mutant: an invalid result is not counted in invalid_files
add_result_validOnly(self, r) ==
    [total_files |-> self.total_files + 1,
     valid_files |-> IF r.is_valid THEN self.valid_files + 1 ELSE self.valid_files,
     invalid_files |-> self.invalid_files,
     total_errors |-> self.total_errors + Len(r.errors),
     total_warnings |-> self.total_warnings + Len(r.warnings),
     error_codes |-> CountErrorCodes(self.error_codes, r.errors, 1),
     message_types |-> IF Truthy(r.message_type)
                       THEN Increment(self.message_types, r.message_type)
                       ELSE self.message_types,
     ddex_versions |-> IF Truthy(r.ddex_version)
                       THEN Increment(self.ddex_versions, r.ddex_version)
                       ELSE self.ddex_versions]

\* add_result, lines 267-290
add_result(self, r) ==
    [total_files |-> self.total_files + 1,
     valid_files |-> IF r.is_valid THEN self.valid_files + 1 ELSE self.valid_files,
     invalid_files |-> IF r.is_valid THEN self.invalid_files
                       ELSE self.invalid_files + 1,
     total_errors |-> self.total_errors + Len(r.errors),
     total_warnings |-> self.total_warnings + Len(r.warnings),
     error_codes |-> CountErrorCodes(self.error_codes, r.errors, 1),
     message_types |-> IF Truthy(r.message_type)
                       THEN Increment(self.message_types, r.message_type)
                       ELSE self.message_types,
     ddex_versions |-> IF Truthy(r.ddex_version)
                       THEN Increment(self.ddex_versions, r.ddex_version)
                       ELSE self.ddex_versions]

\* the errors lists of the results added: none, one or two errors, with a
\* code, with the code None (the default of ValidationIssue.error_code) or
\* with an empty code
StatsErrors ==
    LET issue(code) == ValidationIssue(ERROR, code, 0, 0) IN
    {<<>>,
     <<issue("XML_SYNTAX_ERROR")>>,
     <<issue(None)>>,
     <<issue("INVALID_ISRC"), issue("INVALID_ISRC")>>,
     <<issue("INVALID_ISRC"), issue("XML_SYNTAX_ERROR")>>,
     <<issue(""), issue("INVALID_ISRC")>>}

\* the warnings lists of the results added
StatsWarnings == {<<>>, <<ValidationIssue(WARNING, "NON_STANDARD_DURATION", 0, 0)>>}

\* the results added: ValidationResult is a dataclass, whose fields the
\* caller sets freely
StatsResults ==
    {ValidationResult(valid, errs, warns, <<>>, mt, ver) :
        valid \in BOOLEAN, errs \in StatsErrors, warns \in StatsWarnings,
        mt \in {None, "NewReleaseMessage"}, ver \in {None, "3.8.2"}}

\* a ValidationStatistics is constructed
StatsInit ==
    /\ ValidatorIdle
    /\ CacheIdle
    /\ RulesIdle
    /\ session = <<>>
    /\ stats = NewStatistics
    /\ added = <<>>

\* the caller runs stats.add_result(r)
AddResult(r) ==
    /\ Len(added) < MaxAdded
    /\ stats' = add_result(stats, r)
    /\ added' = Append(added, r)
    /\ UNCHANGED <<validatorvars, cachevars, rulevars, session>>

StatsNext == \E r \in StatsResults : AddResult(r)

StatsSpec == StatsInit /\ [][StatsNext]_vars

----------------------------------------------------------------------------
(* _get_schema called by several threads on one validator *)

Threads == 1..MaxThreads

\* the schema paths the calls resolve to; the file at broken.xsd does not load
SchemaPaths == {"ddex_3-8-2.xsd", "ern-main.xsd", "broken.xsd"}

\* no XMLSchema object
NoSchema == 0

\* line 33: self._schema_cache = {}
CacheInit ==
    /\ ValidatorIdle
    /\ RulesIdle
    /\ ExtraIdle
    /\ shared_cache = [p \in SchemaPaths |-> NoSchema]
    /\ created = <<>>
    /\ t_pc = [t \in Threads |-> "idle"]
    /\ t_path = [t \in Threads |-> None]
    /\ t_schema = [t \in Threads |-> NoSchema]

\* thread t enters _get_schema(schema_path)
GetSchemaCall(t, schema_path) ==
    /\ t_pc[t] = "idle"
    /\ t_path' = [t_path EXCEPT ![t] = schema_path]
    /\ t_pc' = [t_pc EXCEPT ![t] = "check"]
    /\ UNCHANGED <<validatorvars, rulevars, extravars, shared_cache, created, t_schema>>

\* line 413: if schema_path not in self._schema_cache
GetSchemaCheck(t) ==
    /\ t_pc[t] = "check"
    /\ t_pc' = [t_pc EXCEPT ![t] =
                   IF shared_cache[t_path[t]] = NoSchema THEN "load" ELSE "return"]
    /\ UNCHANGED <<validatorvars, rulevars, extravars, shared_cache, created, t_path,
                   t_schema>>

\* line 415, right-hand side: xmlschema.XMLSchema(schema_path) builds a new
\* object, or raises (lines 416-417) and the call ends without a schema
GetSchemaLoad(t) ==
    /\ t_pc[t] = "load"
    /\ IF t_path[t] = "broken.xsd"
       THEN /\ t_pc' = [t_pc EXCEPT ![t] = "raised"]
            /\ UNCHANGED <<created, t_schema>>
       ELSE /\ created' = Append(created, t_path[t])
            /\ t_schema' = [t_schema EXCEPT ![t] = Len(created) + 1]
            /\ t_pc' = [t_pc EXCEPT ![t] = "store"]
    /\ UNCHANGED <<validatorvars, rulevars, extravars, shared_cache, t_path>>

\* line 415, the assignment: self._schema_cache[schema_path] = ...
GetSchemaStore(t) ==
    /\ t_pc[t] = "store"
    /\ shared_cache' = [shared_cache EXCEPT ![t_path[t]] = t_schema[t]]
    /\ t_pc' = [t_pc EXCEPT ![t] = "return"]
    /\ UNCHANGED <<validatorvars, rulevars, extravars, created, t_path, t_schema>>

\* line 419: return self._schema_cache[schema_path]
GetSchemaReturn(t) ==
    /\ t_pc[t] = "return"
    /\ t_schema' = [t_schema EXCEPT ![t] = shared_cache[t_path[t]]]
    /\ t_pc' = [t_pc EXCEPT ![t] = "done"]
    /\ UNCHANGED <<validatorvars, rulevars, extravars, shared_cache, created, t_path>>

CacheNext ==
    \/ \E t \in Threads, p \in SchemaPaths : GetSchemaCall(t, p)
    \/ \E t \in Threads : GetSchemaCheck(t)
    \/ \E t \in Threads : GetSchemaLoad(t)
    \/ \E t \in Threads : GetSchemaStore(t)
    \/ \E t \in Threads : GetSchemaReturn(t)

CacheSpec == CacheInit /\ [][CacheNext]_vars

----------------------------------------------------------------------------
(* rules.py: the parsed tree and what the checkers read of it *)

\* A tree is its root tag and the elements below the root in document order;
\* an element is its local tag name, its text (the empty string for no text:
\* lxml's None and "" are both false in "if x.text"), its ResourceReference
\* attribute (None when it has none) and the position of its parent (0: the
\* root)
Element(tag, text, attr, parent) ==
    [tag |-> tag, text |-> text, attr |-> attr, parent |-> parent]

Tree(tag, elements) == [tag |-> tag, elements |-> elements]

\* the character of string str at position i
Char(str, i) == SubSeq(str, i, i)

\* the characters str.strip() removes
Whitespace == {" ", "\n", "\t"}

RECURSIVE lstrip(_)
lstrip(str) ==
    IF Len(str) > 0 /\ Head(str) \in Whitespace THEN lstrip(Tail(str)) ELSE str

RECURSIVE rstrip(_)
rstrip(str) ==
    IF Len(str) > 0 /\ Char(str, Len(str)) \in Whitespace
    THEN rstrip(SubSeq(str, 1, Len(str) - 1))
    ELSE str

\* str.strip()
strip(str) == rstrip(lstrip(str))

\* whether element a of the tree is element i or one of its ancestors
RECURSIVE IsAncestorOrSelf(_, _, _)
IsAncestorOrSelf(tree, a, i) ==
    IF i = a THEN TRUE
    ELSE IF i = 0 THEN FALSE
         ELSE IsAncestorOrSelf(tree, a, tree.elements[i].parent)

\* ctx.xpath(".//name | .//*[local-name()='name']"): the positions of the
\* elements below ctx with that local name, in document order
RECURSIVE XPathFrom(_, _, _, _)
XPathFrom(tree, ctx, names, i) ==
    IF i > Len(tree.elements) THEN <<>>
    ELSE (IF /\ tree.elements[i].tag \in names
             /\ i # ctx
             /\ IsAncestorOrSelf(tree, ctx, i)
          THEN <<i>> ELSE <<>>) \o XPathFrom(tree, ctx, names, i + 1)

xpath(tree, ctx, names) == XPathFrom(tree, ctx, names, 1)

\* the positions of character ch in str
Positions(str, ch) == {k \in 1..Len(str) : Char(str, k) = ch}

\* lines 549-550: a tag in Clark notation "{uri}name" is cut at every "}" and
\* the second piece is kept; a tag without "}" is kept whole
StripNamespace(tag) ==
    LET closing == Positions(tag, "}") IN
    IF closing = {} THEN tag
    ELSE LET first == CHOOSE k \in closing : \A m \in closing : k <= m
             later == closing \ {first}
             stop == IF later = {} THEN Len(tag) + 1
                     ELSE CHOOSE k \in later : \A m \in later : k <= m
         IN SubSeq(tag, first + 1, stop - 1)

\* the decimal numerals of the sibling positions
IndexStr == <<"1", "2", "3", "4", "5", "6", "7", "8", "9">>

\* the same-tag siblings of element i, itself included (line 554)
Siblings(tree, i) ==
    {j \in 1..Len(tree.elements) :
        /\ tree.elements[j].parent = tree.elements[i].parent
        /\ tree.elements[j].tag = tree.elements[i].tag}

\* mutant: the positions are counted from 0
RECURSIVE _get_element_path_zeroBased(_, _)
_get_element_path_zeroBased(tree, i) ==
    IF i = 0 THEN "/" \o StripNamespace(tree.tag)
    ELSE LET sib == Siblings(tree, i)
             idx == Cardinality({j \in sib : j < i})
         IN _get_element_path_zeroBased(tree, tree.elements[i].parent) \o "/"
            \o StripNamespace(tree.elements[i].tag)
            \o (IF Cardinality(sib) > 1
                THEN "[" \o (IF idx = 0 THEN "0" ELSE IndexStr[idx]) \o "]" ELSE "")

\* _get_element_path: the local tag names from the root down, with the
\* 1-based position among the same-tag siblings where there are several
RECURSIVE _get_element_path(_, _)
_get_element_path(tree, i) ==
    IF i = 0 THEN "/" \o StripNamespace(tree.tag)
    ELSE LET sib == Siblings(tree, i)
             idx == Cardinality({j \in sib : j <= i})
         IN _get_element_path(tree, tree.elements[i].parent) \o "/"
            \o StripNamespace(tree.elements[i].tag)
            \o (IF Cardinality(sib) > 1 THEN "[" \o IndexStr[idx] \o "]" ELSE "")

\* ValidationIssue as the checkers build it: element_path and context are
\* None where the checker gives none
RuleIssue(sev, code, path, context) ==
    [severity |-> sev, error_code |-> code, element_path |-> path,
     context |-> context]

\* a checker returned its list of issues
Returned(list) == [issues |-> list]

\* a checker that reads the clock returned its list of issues, datetime.now()
\* having been in year now_year
ReturnedAt(list, now_year) == [issues |-> list, now |-> now_year]

----------------------------------------------------------------------------
(* rules.py: _validate_duplicate_identifiers *)

\* mutant: the values are compared as written, not stripped
RECURSIVE DuplicatesAmong_unstripped(_, _, _, _, _)
DuplicatesAmong_unstripped(tree, nodes, k, seen, code) ==
    IF k > Len(nodes) THEN <<>>
    ELSE LET el == tree.elements[nodes[k]]
             value == el.text
         IN IF el.text = "" THEN DuplicatesAmong_unstripped(tree, nodes, k + 1, seen, code)
            ELSE IF value \in seen
                 THEN <<RuleIssue(ERROR, code, _get_element_path(tree, nodes[k]), value)>>
                      \o DuplicatesAmong_unstripped(tree, nodes, k + 1, seen, code)
                 ELSE DuplicatesAmong_unstripped(tree, nodes, k + 1,
                                                 seen \cup {value}, code)

\* one loop of lines 507-520 (ISRC) and 525-538 (GRid): seen is the key set
\* of isrc_values / grid_values
RECURSIVE DuplicatesAmong(_, _, _, _, _)
DuplicatesAmong(tree, nodes, k, seen, code) ==
    IF k > Len(nodes) THEN <<>>
    ELSE LET el == tree.elements[nodes[k]]
             value == strip(el.text)
         IN IF el.text = "" THEN DuplicatesAmong(tree, nodes, k + 1, seen, code)
            ELSE IF value \in seen
                 THEN <<RuleIssue(ERROR, code, _get_element_path(tree, nodes[k]), value)>>
                      \o DuplicatesAmong(tree, nodes, k + 1, seen, code)
                 ELSE DuplicatesAmong(tree, nodes, k + 1, seen \cup {value}, code)

_validate_duplicate_identifiers(tree) ==
    DuplicatesAmong(tree, xpath(tree, 0, {"ISRC"}), 1, {}, "DUPLICATE_ISRC")
    \o DuplicatesAmong(tree, xpath(tree, 0, {"GRid"}), 1, {}, "DUPLICATE_GRID")

\* the sequences of at most n elements drawn from set E
SeqsUpTo(E, n) == UNION {[1..k -> E] : k \in 0..n}

\* the identifier texts of the trees given to the duplicate check
DuplicateTexts == {"", " ", "QZ", " QZ", "QZ\n", "XY"}

DuplicateTrees ==
    {Tree("NewReleaseMessage", els) :
        els \in SeqsUpTo({Element(tag, text, None, 0) :
                              tag \in {"ISRC", "GRid"}, text \in DuplicateTexts},
                         MaxElements)}

----------------------------------------------------------------------------
(* constants.py: PATTERNS, and rules.py: validate_identifiers *)

DigitChars == <<"0", "1", "2", "3", "4", "5", "6", "7", "8", "9">>

Digits == {DigitChars[i] : i \in 1..Len(DigitChars)}

UpperCase ==
    {"A", "B", "C", "D", "E", "F", "G", "H", "I", "J", "K", "L", "M",
     "N", "O", "P", "Q", "R", "S", "T", "U", "V", "W", "X", "Y", "Z"}

HexDigits == Digits \cup {"A", "B", "C", "D", "E", "F"}

\* int(c) for a digit character c
DigitValue(c) == CHOOSE v \in 0..9 : DigitChars[v + 1] = c

\* whether the characters from..to of str all belong to class
AllIn(str, from, to, class) == \A i \in from..to : Char(str, i) \in class

\* what "$" lets a pattern end before: the end of the string, or one
\* newline that ends the string
BeforeDollar(str) ==
    IF Len(str) > 0 /\ Char(str, Len(str)) = "\n"
    THEN {str, SubSeq(str, 1, Len(str) - 1)}
    ELSE {str}

\* PATTERNS["GRID"].match: ^A1[A-Z0-9]{5}[A-Z0-9]{10}[A-Z0-9]$
MatchesGRID(str) ==
    \E b \in BeforeDollar(str) :
        /\ Len(b) = 18
        /\ SubSeq(b, 1, 2) = "A1"
        /\ AllIn(b, 3, 18, UpperCase \cup Digits)

\* PATTERNS["ISRC"].match: ^[A-Z]{2}[A-Z0-9]{3}[0-9]{7}$
MatchesISRC(str) ==
    \E b \in BeforeDollar(str) :
        /\ Len(b) = 12
        /\ AllIn(b, 1, 2, UpperCase)
        /\ AllIn(b, 3, 5, UpperCase \cup Digits)
        /\ AllIn(b, 6, 12, Digits)

\* PATTERNS["ISAN"].match: ^[A-F0-9]{12}$
MatchesISAN(str) ==
    \E b \in BeforeDollar(str) : Len(b) = 12 /\ AllIn(b, 1, 12, HexDigits)

\* PATTERNS["VISAN"].match: ^[A-F0-9]{24}$
MatchesVISAN(str) ==
    \E b \in BeforeDollar(str) : Len(b) = 24 /\ AllIn(b, 1, 24, HexDigits)

\* PATTERNS["ICPN"].match: ^[0-9]{12,13}$
MatchesICPN(str) ==
    \E b \in BeforeDollar(str) :
        Len(b) \in {12, 13} /\ AllIn(b, 1, Len(b), Digits)

\* str.replace("-", "")
RECURSIVE RemoveHyphens(_)
RemoveHyphens(str) ==
    IF Len(str) = 0 THEN ""
    ELSE (IF Head(str) = "-" THEN "" ELSE Head(str)) \o RemoveHyphens(Tail(str))

\* int(str) for a string of digits
RECURSIVE ToInt(_)
ToInt(str) ==
    IF Len(str) = 0 THEN 0
    ELSE 10 * ToInt(SubSeq(str, 1, Len(str) - 1)) + DigitValue(Char(str, Len(str)))

\* sum(int(icpn[i]) for i in range(from, stop, 2)), positions counted from 0
RECURSIVE SumFrom(_, _, _)
SumFrom(icpn, from, stop) ==
    IF from >= stop THEN 0
    ELSE DigitValue(Char(icpn, from + 1)) + SumFrom(icpn, from + 2, stop)

\* mutant: the EAN weights are used for the 12-digit code as well
_validate_icpn_checksum_eanWeights(icpn) ==
    IF Len(icpn) \in {12, 13}
    THEN LET odd_sum == SumFrom(icpn, 0, Len(icpn) - 1)
             even_sum == SumFrom(icpn, 1, Len(icpn) - 1)
             total == odd_sum + even_sum * 3
             check_digit == (10 - (total % 10)) % 10
         IN check_digit = DigitValue(Char(icpn, Len(icpn)))
    ELSE FALSE

\* _validate_icpn_checksum, called on strings that match PATTERNS["ICPN"]
_validate_icpn_checksum(icpn) ==
    IF Len(icpn) = 12
    THEN LET odd_sum == SumFrom(icpn, 0, 11)
             even_sum == SumFrom(icpn, 1, 11)
             total == odd_sum * 3 + even_sum
             check_digit == (10 - (total % 10)) % 10
         IN check_digit = DigitValue(Char(icpn, 12))
    ELSE IF Len(icpn) = 13
         THEN LET odd_sum == SumFrom(icpn, 0, 12)
                  even_sum == SumFrom(icpn, 1, 12)
                  total == odd_sum + even_sum * 3
                  check_digit == (10 - (total % 10)) % 10
              IN check_digit = DigitValue(Char(icpn, 13))
         ELSE FALSE

\* the concatenation of a sequence of lists
RECURSIVE Flatten(_)
Flatten(lists) ==
    IF Len(lists) = 0 THEN <<>> ELSE Head(lists) \o Flatten(Tail(lists))

\* lines 27-45: one GRid element
CheckGRid(tree, i) ==
    LET text == tree.elements[i].text IN
    IF text # ""
    THEN IF ~MatchesGRID(strip(text))
         THEN <<RuleIssue(ERROR, "INVALID_GRID", _get_element_path(tree, i), strip(text))>>
         ELSE <<>>
    ELSE <<RuleIssue(ERROR, "EMPTY_GRID", _get_element_path(tree, i), None)>>

\* mutant: an ISRC element without text is passed over
CheckISRC_skipsEmpty(tree, i, now_year) ==
    LET text == tree.elements[i].text
        isrc_value == strip(text)
    IN IF text # "" /\ ~MatchesISRC(isrc_value)
       THEN <<RuleIssue(ERROR, "INVALID_ISRC", _get_element_path(tree, i), isrc_value)>>
       ELSE <<>>

\* mutant: a year code of exactly ten years ahead is suspicious too
CheckISRC_atLeast(tree, i, now_year) ==
    LET text == tree.elements[i].text
        isrc_value == strip(text)
        year_code == SubSeq(isrc_value, 6, 7)
    IN IF text # ""
       THEN IF ~MatchesISRC(isrc_value)
            THEN <<RuleIssue(ERROR, "INVALID_ISRC", _get_element_path(tree, i), isrc_value)>>
            ELSE IF ToInt(year_code) >= (now_year % 100) + 10
                 THEN <<RuleIssue(WARNING, "SUSPICIOUS_ISRC_YEAR",
                                  _get_element_path(tree, i), year_code)>>
                 ELSE <<>>
       ELSE <<RuleIssue(ERROR, "EMPTY_ISRC", _get_element_path(tree, i), None)>>

\* lines 49-90: one ISRC element; now_year is datetime.now().year
CheckISRC(tree, i, now_year) ==
    LET text == tree.elements[i].text
        isrc_value == strip(text)
        year_code == SubSeq(isrc_value, 6, 7)
    IN IF text # ""
       THEN IF ~MatchesISRC(isrc_value)
            THEN <<RuleIssue(ERROR, "INVALID_ISRC", _get_element_path(tree, i), isrc_value)>>
            ELSE IF ToInt(year_code) > (now_year % 100) + 10
                 THEN <<RuleIssue(WARNING, "SUSPICIOUS_ISRC_YEAR",
                                  _get_element_path(tree, i), year_code)>>
                 ELSE <<>>
       ELSE <<RuleIssue(ERROR, "EMPTY_ISRC", _get_element_path(tree, i), None)>>

\* lines 94-105: one ISAN element
CheckISAN(tree, i) ==
    LET text == tree.elements[i].text IN
    IF text # "" /\ ~MatchesISAN(RemoveHyphens(strip(text)))
    THEN <<RuleIssue(ERROR, "INVALID_ISAN", _get_element_path(tree, i), strip(text))>>
    ELSE <<>>

\* lines 109-120: one VISAN element
CheckVISAN(tree, i) ==
    LET text == tree.elements[i].text IN
    IF text # "" /\ ~MatchesVISAN(RemoveHyphens(strip(text)))
    THEN <<RuleIssue(ERROR, "INVALID_VISAN", _get_element_path(tree, i), strip(text))>>
    ELSE <<>>

\* lines 124-146: one ICPN element
CheckICPN(tree, i) ==
    LET text == tree.elements[i].text
        icpn_value == strip(text)
    IN IF text # ""
       THEN IF ~MatchesICPN(icpn_value)
            THEN <<RuleIssue(ERROR, "INVALID_ICPN", _get_element_path(tree, i), icpn_value)>>
            ELSE IF ~_validate_icpn_checksum(icpn_value)
                 THEN <<RuleIssue(WARNING, "INVALID_ICPN_CHECKSUM",
                                  _get_element_path(tree, i), icpn_value)>>
                 ELSE <<>>
       ELSE <<>>

validate_identifiers(tree, now_year) ==
    \* the issues of a loop "for x in nodes": Body(i) is what the pass for
    \* element i appends
    LET ForEach(nodes, Body(_)) ==
            Flatten([k \in 1..Len(nodes) |-> Body(nodes[k])])
    IN ForEach(xpath(tree, 0, {"GRid"}), LAMBDA i : CheckGRid(tree, i))
       \o ForEach(xpath(tree, 0, {"ISRC"}), LAMBDA i : CheckISRC(tree, i, now_year))
       \o ForEach(xpath(tree, 0, {"ISAN"}), LAMBDA i : CheckISAN(tree, i))
       \o ForEach(xpath(tree, 0, {"VISAN"}), LAMBDA i : CheckVISAN(tree, i))
       \o ForEach(xpath(tree, 0, {"ICPN"}), LAMBDA i : CheckICPN(tree, i))

\* the years datetime.now() falls in
Years == {2026, 2089, 2095}

IdentifierKinds == {"GRid", "ISRC", "ISAN", "VISAN", "ICPN"}

\* the texts of the identifier elements of the trees: no text, blanks, and
\* per kind well-formed, padded and ill-formed values
IdentifierTexts(kind) ==
    {"", " "} \cup
    CASE kind = "GRid" ->
            {"A12425G0010000001A", "\nA12425G0010000001A ", "A1-2425G-0010000001-A"}
      [] kind = "ISRC" ->
            {"USRC17607839", " USRC17607839\n", "US-RC17607839", "USRC19907839",
             "usrc17607839", "USRC12607839", "USRC13607839", "USRC13707839",
             "USRC10007839"}
      [] kind = "ISAN" -> {"0000-3BAB-9352", " 00003BAB9352", "0000-3BAB-935Z"}
      [] kind = "VISAN" ->
            {"0000-3BAB-9352-0000-1A2B-3C4D", "00003BAB9352"}
      [] OTHER ->
            {"036000291452", " 036000291452 ", "036000291453", "4006381333931",
             "4006381333932", "03600029145"}

IdentifierElements ==
    UNION {{Element(kind, text, None, 0) : text \in IdentifierTexts(kind)} :
              kind \in IdentifierKinds}

\* the 12- and 13-digit codes whose first, second and last digit vary
ICPNCodes ==
    {a \o b \o mid \o c :
        a \in Digits, b \in Digits, c \in Digits,
        mid \in {"600029145", "0638133393"}}

IdentifierTrees ==
    {Tree("NewReleaseMessage", els) : els \in SeqsUpTo(IdentifierElements, MaxElements - 1)}
    \cup {Tree("NewReleaseMessage", <<Element("ICPN", code, None, 0)>>) :
             code \in ICPNCodes}

----------------------------------------------------------------------------
(* rules.py: validate_durations and _parse_duration_to_seconds *)

\* the length of the longest prefix of str made of characters of class
RunLen(str, class) ==
    CHOOSE n \in 0..Len(str) :
        /\ AllIn(str, 1, n, class)
        /\ n < Len(str) => Char(str, n + 1) \notin class

\* str without its first n characters
Drop(str, n) == SubSeq(str, n + 1, Len(str))

\* what is left of str after an optional group ([0-9]+<letter>)?
AfterGroup(str, letter) ==
    LET n == RunLen(str, Digits) IN
    IF n > 0 /\ Len(str) > n /\ Char(str, n + 1) = letter
    THEN Drop(str, n + 1) ELSE str

\* what is left of str after the optional group ([0-9]+(\.[0-9]+)?S)?
AfterSeconds(str) ==
    LET n == RunLen(str, Digits)
        rest == Drop(str, n)
        m == RunLen(Drop(rest, 1), Digits)
    IN IF n = 0 \/ Len(rest) = 0 THEN str
       ELSE IF Head(rest) = "S" THEN Drop(rest, 1)
            ELSE IF /\ Head(rest) = "."
                    /\ m > 0
                    /\ Len(rest) > m + 1
                    /\ Char(rest, m + 2) = "S"
                 THEN Drop(rest, m + 2)
                 ELSE str

\* PATTERNS["DURATION"].match:
\* ^PT(([0-9]+H)?([0-9]+M)?([0-9]+(\.[0-9]+)?S)?)$
MatchesDURATION(str) ==
    \E b \in BeforeDollar(str) :
        /\ Len(b) >= 2
        /\ SubSeq(b, 1, 2) = "PT"
        /\ AfterSeconds(AfterGroup(AfterGroup(Drop(b, 2), "H"), "M")) = ""

\* re.search(r'(<class>+)<letter>', str).group(1): the leftmost run of
\* characters of class that is followed by the letter, "" when there is none
RECURSIVE Search(_, _, _)
Search(str, class, letter) ==
    IF Len(str) = 0 THEN ""
    ELSE LET n == RunLen(str, class) IN
         IF n = 0 THEN Search(Tail(str), class, letter)
         ELSE IF Len(str) > n /\ Char(str, n + 1) = letter
              THEN SubSeq(str, 1, n)
              ELSE Search(Drop(str, n), class, letter)

\* the numbers of the model are counted in units of 10^-FractionDigits
RECURSIVE Power10(_)
Power10(n) == IF n = 0 THEN 1 ELSE 10 * Power10(n - 1)

Scale == Power10(FractionDigits)

\* the decimal digits of the largest float (about 1.8 * 10^308): an int of
\* more digits does not convert to float, and int + float raises
\* OverflowError
FloatMaxDigits == 309

\* int(digits): huge tells that the int is beyond every float, value is the
\* int otherwise (the numerals of the model have at most SmallDigits digits
\* or more than FloatMaxDigits)
IntOf(digits) ==
    [huge |-> Len(digits) > FloatMaxDigits,
     value |-> IF Len(digits) <= SmallDigits THEN ToInt(digits) ELSE 0]

\* digits followed by zeros up to FractionDigits digits
RECURSIVE PadRight(_)
PadRight(digits) ==
    IF Len(digits) >= FractionDigits THEN SubSeq(digits, 1, FractionDigits)
    ELSE PadRight(digits \o "0")

\* float(str) in units of 10^-FractionDigits; ok is false where float raises
\* ValueError
FloatOf(str) ==
    LET n == RunLen(str, Digits)
        rest == Drop(str, n)
        frac == Drop(rest, 1)
    IN IF Len(rest) = 0 /\ n > 0
       THEN [ok |-> TRUE, value |-> ToInt(str) * Scale]
       ELSE IF /\ Len(rest) > 0
               /\ Head(rest) = "."
               /\ RunLen(frac, Digits) = Len(frac)
               /\ n + Len(frac) > 0
            THEN [ok |-> TRUE,
                  value |-> ToInt(SubSeq(str, 1, n)) * Scale + ToInt(PadRight(frac))]
            ELSE [ok |-> FALSE, value |-> 0]

\* _parse_duration_to_seconds: kind is "value" (the total, in units of
\* 10^-FractionDigits), "none" (None is returned) or "raise" (OverflowError,
\* which the except clause of line 618 does not catch)
_parse_duration_to_seconds(duration) ==
    IF SubSeq(duration, 1, 2) # "PT" THEN [kind |-> "none", value |-> 0]
    ELSE LET body == Drop(duration, 2)
             hour_match == Search(body, Digits, "H")
             minute_match == Search(body, Digits, "M")
             second_match == Search(body, Digits \cup {"."}, "S")
             hours == IF hour_match # "" THEN IntOf(hour_match) ELSE IntOf("0")
             minutes == IF minute_match # "" THEN IntOf(minute_match) ELSE IntOf("0")
             seconds == IF second_match # "" THEN FloatOf(second_match)
                        ELSE [ok |-> TRUE, value |-> 0]
         IN IF ~seconds.ok THEN [kind |-> "none", value |-> 0]
            ELSE IF hours.huge \/ minutes.huge THEN [kind |-> "raise", value |-> 0]
                 ELSE [kind |-> "value",
                       value |-> (hours.value * 3600 + minutes.value * 60) * Scale
                                 + seconds.value]

\* lines 156-188: one Duration element whose parse does not raise
CheckDuration(tree, i) ==
    LET text == tree.elements[i].text
        duration_value == strip(text)
        total_seconds == _parse_duration_to_seconds(duration_value)
    IN IF text = "" THEN <<>>
       ELSE IF ~MatchesDURATION(duration_value)
            THEN <<RuleIssue(ERROR, "INVALID_DURATION",
                             _get_element_path(tree, i), duration_value)>>
            ELSE IF total_seconds.kind # "value" THEN <<>>
                 ELSE IF total_seconds.value > 7200 * Scale
                      THEN <<RuleIssue(WARNING, "UNUSUALLY_LONG_DURATION",
                                       _get_element_path(tree, i), duration_value)>>
                      ELSE IF total_seconds.value < 1 * Scale
                           THEN <<RuleIssue(WARNING, "UNUSUALLY_SHORT_DURATION",
                                            _get_element_path(tree, i), duration_value)>>
                           ELSE <<>>

\* whether the pass for element i leaves validate_durations by an exception
DurationRaises(tree, i) ==
    LET duration_value == strip(tree.elements[i].text) IN
    /\ tree.elements[i].text # ""
    /\ MatchesDURATION(duration_value)
    /\ _parse_duration_to_seconds(duration_value).kind = "raise"

\* validate_durations: the issue list, or the exception of the first element
\* whose parse raises
validate_durations(tree) ==
    LET nodes == xpath(tree, 0, {"Duration"}) IN
    IF \E k \in 1..Len(nodes) : DurationRaises(tree, nodes[k])
    THEN Raised
    ELSE Returned(Flatten([k \in 1..Len(nodes) |-> CheckDuration(tree, nodes[k])]))

\* a numeral of 400 digits
Nines ==
    LET ten == "9999999999"
        hundred == ten \o ten \o ten \o ten \o ten \o ten \o ten \o ten \o ten \o ten
    IN hundred \o hundred \o hundred \o hundred

\* a duration of 10^400 - 1 hours
HugeDuration == "PT" \o Nines \o "H"

\* the texts of the Duration elements of the trees
DurationTexts ==
    {"PT" \o h \o m \o sec :
        h \in {"", "2H", "3H"},
        m \in {"", "0M", "3M", "121M"},
        sec \in {"", "0S", "0.5S", "1S", "45S", "0.999S"}}
    \cup {HugeDuration, " PT3M45S\n", "3M45S", "PT3m", "", "PT1.5H", "PT5S3M"}

DurationTrees ==
    {Tree("NewReleaseMessage", els) :
        els \in SeqsUpTo({Element("Duration", text, None, 0) : text \in DurationTexts},
                         MaxElements - 1)}

----------------------------------------------------------------------------
(* rules.py: _validate_resource_references *)

\* mutant: the reference texts are taken as written
resource_refs_unstripped(tree) ==
    LET ref_elements == xpath(tree, 0, {"ReleaseResourceReference", "ResourceReference"})
    IN {tree.elements[ref_elements[k]].text :
           k \in {j \in 1..Len(ref_elements) : tree.elements[ref_elements[j]].text # ""}}

\* lines 458-465: the stripped texts of the reference elements that have text
resource_refs(tree) ==
    LET ref_elements == xpath(tree, 0, {"ReleaseResourceReference", "ResourceReference"})
    IN {strip(tree.elements[ref_elements[k]].text) :
           k \in {j \in 1..Len(ref_elements) : tree.elements[ref_elements[j]].text # ""}}

\* lines 468-474: the ResourceReference attribute values, as written, of the
\* elements that carry the attribute (an element named ResourceReference is
\* looked at too, and adds nothing unless it carries the attribute)
resource_anchors(tree) ==
    {tree.elements[i].attr :
        i \in {j \in 1..Len(tree.elements) :
                  /\ \/ tree.elements[j].attr # None
                     \/ tree.elements[j].tag = "ResourceReference"
                  /\ tree.elements[j].attr # None
                  /\ tree.elements[j].attr # ""}}

\* the orders in which a loop over set S can visit it
Orderings(S) ==
    {f \in [1..Cardinality(S) -> S] : \A i, j \in 1..Cardinality(S) : f[i] = f[j] => i = j}

\* lines 477-498: the issue lists the check can return; the two loops run
\* over sets, whose iteration order is not fixed
_validate_resource_references(tree) ==
    LET undefined_refs == resource_refs(tree) \ resource_anchors(tree)
        unused_anchors == resource_anchors(tree) \ resource_refs(tree)
    IN {[k \in 1..Len(u) |->
            RuleIssue(ERROR, "UNDEFINED_RESOURCE_REFERENCE", None, u[k])]
        \o [k \in 1..Len(w) |->
               RuleIssue(WARNING, "UNUSED_RESOURCE", None, w[k])] :
           u \in Orderings(undefined_refs), w \in Orderings(unused_anchors)}

\* the elements of the trees given to the reference check
ReferenceElements ==
    {Element("ReleaseResourceReference", text, None, 0) :
        text \in {"", "R1", " R1", "R2"}}
    \cup {Element("ResourceReference", text, attr, 0) :
             text \in {"", "R1", " R1", "R2"}, attr \in {None, "R1"}}
    \cup {Element("SoundRecording", "", attr, 0) :
             attr \in {"", "R1", " R1", "R2"}}

ReferenceTrees ==
    {Tree("NewReleaseMessage", els) : els \in SeqsUpTo(ReferenceElements, MaxElements)}

----------------------------------------------------------------------------
(* rules.py: validate_required_elements *)

\* utils.py, detect_message_type: the local name of the root element
detect_message_type(tree) == StripNamespace(tree.tag)

\* line 308
required_header_elements ==
    <<"MessageThreadId", "MessageId", "MessageSender", "MessageRecipient",
      "MessageCreatedDateTime">>

\* lines 312-321: the issue for one required element of the header, none when
\* the header holds the element at any depth.  The context text names
\* req_elem after a fixed prefix, which the model leaves out.
CheckHeaderElement(tree, header, req_elem) ==
    IF xpath(tree, header, {req_elem}) = <<>>
    THEN <<RuleIssue(ERROR, "MISSING_HEADER_ELEMENT", "MessageHeader", req_elem)>>
    ELSE <<>>

\* mutant: the required elements are looked for in the whole document
CheckHeader_anywhere(tree) ==
    Flatten([k \in 1..Len(required_header_elements) |->
                CheckHeaderElement(tree, 0, required_header_elements[k])])

\* lines 306-321: the first MessageHeader of the document is checked
CheckHeader(tree) ==
    LET header == xpath(tree, 0, {"MessageHeader"})[1]
    IN Flatten([k \in 1..Len(required_header_elements) |->
                   CheckHeaderElement(tree, header, required_header_elements[k])])

\* mutant: every message type but NewReleaseMessage needs its MessageHeader
OtherMessageType_needsHeader(tree, msg_type) ==
    IF xpath(tree, 0, {"MessageHeader"}) = <<>>
    THEN <<RuleIssue(ERROR, "MISSING_MESSAGE_HEADER", None, None)>>
    ELSE <<>>

\* lines 341-351: a message type other than NewReleaseMessage
OtherMessageType(tree, msg_type) ==
    IF msg_type = "CatalogListMessage"
    THEN IF xpath(tree, 0, {"MessageHeader"}) = <<>>
         THEN <<RuleIssue(ERROR, "MISSING_MESSAGE_HEADER", None, None)>>
         ELSE <<>>
    ELSE <<>>

\* validate_required_elements, lines 291-351
validate_required_elements(tree, msg_type) ==
    IF msg_type = "NewReleaseMessage"
    THEN (IF xpath(tree, 0, {"MessageHeader"}) = <<>>
          THEN <<RuleIssue(ERROR, "MISSING_MESSAGE_HEADER", None, None)>>
          ELSE CheckHeader(tree))
         \o (IF xpath(tree, 0, {"ReleaseList"}) = <<>>
             THEN <<RuleIssue(ERROR, "MISSING_RELEASE_LIST", None, None)>>
             ELSE <<>>)
         \o (IF xpath(tree, 0, {"ResourceList"}) = <<>>
             THEN <<RuleIssue(WARNING, "MISSING_RESOURCE_LIST", None, None)>>
             ELSE <<>>)
    ELSE OtherMessageType(tree, msg_type)

\* the members of sequence seq that are in set S, in the order of seq
Filter(seq, S) == SelectSeq(seq, LAMBDA x : x \in S)

\* a MessageHeader at position at with the given required elements below it;
\* with deep, the element after MessageRecipient lies inside MessageRecipient
\* rather than directly in the header; with list, a ReleaseList lies inside
\* the header
HeaderSubtree(children, deep, list, at) ==
    LET names == Filter(required_header_elements, children)
        ParentOf(k) == IF deep /\ k > 1 /\ names[k - 1] = "MessageRecipient"
                       THEN at + k - 1 ELSE at
    IN <<Element("MessageHeader", "", None, 0)>>
       \o [k \in 1..Len(names) |-> Element(names[k], "", None, ParentOf(k))]
       \o (IF list THEN <<Element("ReleaseList", "", None, at)>> ELSE <<>>)

\* the set of the required header elements
HeaderElementNames ==
    {required_header_elements[k] : k \in 1..Len(required_header_elements)}

\* the message types of the documents: the two the checker knows, one it has
\* no rules for, and one that is not a DDEX message type at all
RootTags ==
    {"NewReleaseMessage", "CatalogListMessage", "PurgeReleaseMessage",
     "FutureMessage"}

\* the documents given to the required-element check: no, one or two
\* MessageHeaders (the first with any of the required elements, the second
\* empty or complete), a ReleaseList in the root, in the header or nowhere, a
\* ResourceList or none
RequiredTrees ==
    {Tree(type,
          LET header1 == IF first = <<>> THEN <<>>
                         ELSE HeaderSubtree(first[1].children, first[1].deep,
                                            first[1].list, 1)
              header2 == IF first = <<>> \/ second = <<>> THEN <<>>
                         ELSE HeaderSubtree(second[1], FALSE, FALSE,
                                            Len(header1) + 1)
          IN header1 \o header2
             \o (IF release_list THEN <<Element("ReleaseList", "", None, 0)>>
                 ELSE <<>>)
             \o (IF resource_list THEN <<Element("ResourceList", "", None, 0)>>
                 ELSE <<>>)) :
        type \in RootTags,
        first \in SeqsUpTo([children : SUBSET HeaderElementNames,
                            deep : BOOLEAN, list : BOOLEAN], 1),
        second \in SeqsUpTo({{}, HeaderElementNames}, 1),
        release_list \in BOOLEAN,
        resource_list \in BOOLEAN}

----------------------------------------------------------------------------
(* rules.py: validate_technical_details *)

\* float(text) as Python reads a numeral: surrounding whitespace is dropped,
\* a sign may lead, "nan" and "inf" are numbers.  kind is "value" (value in
\* units of 10^-FractionDigits), "nan", "inf", "-inf" or "error" (ValueError
\* is raised).  The texts of the model carry no exponent and no underscore.
float(text) ==
    LET str == strip(text)
        signed == Len(str) > 0 /\ Head(str) \in {"+", "-"}
        negative == Len(str) > 0 /\ Head(str) = "-"
        body == IF signed THEN Tail(str) ELSE str
        number == FloatOf(body)
    IN IF body \in {"nan", "NaN"} THEN [kind |-> "nan", value |-> 0]
       ELSE IF body \in {"inf", "Infinity"}
            THEN [kind |-> IF negative THEN "-inf" ELSE "inf", value |-> 0]
            ELSE IF number.ok
                 THEN [kind |-> "value",
                       value |-> IF negative THEN 0 - number.value ELSE number.value]
                 ELSE [kind |-> "error", value |-> 0]

\* br_value < 64 or br_value > 320: every comparison with nan is false
UnusualBitRate(br_value) ==
    CASE br_value.kind = "value" ->
            br_value.value < 64 * Scale \/ br_value.value > 320 * Scale
      [] br_value.kind = "nan" -> FALSE
      [] OTHER -> TRUE

\* str(n) for a natural number n
RECURSIVE NatStr(_)
NatStr(n) ==
    IF n < 10 THEN DigitChars[n + 1] ELSE NatStr(n \div 10) \o DigitChars[(n % 10) + 1]

\* str with zeros before it up to the given width
RECURSIVE PadLeft(_, _)
PadLeft(str, width) == IF Len(str) >= width THEN str ELSE PadLeft("0" \o str, width)

\* the digits of fraction f, a number of width digits, without the trailing
\* zeros, one digit at least
RECURSIVE FractionStr(_, _)
FractionStr(f, width) ==
    IF width = 1 \/ f % 10 # 0 THEN PadLeft(NatStr(f), width)
    ELSE FractionStr(f \div 10, width - 1)

\* f"{br_value}": the repr of the float
FloatStr(br_value) ==
    CASE br_value.kind = "value" ->
            LET magnitude == IF br_value.value < 0 THEN 0 - br_value.value
                             ELSE br_value.value
            IN (IF br_value.value < 0 THEN "-" ELSE "")
               \o NatStr(magnitude \div Scale) \o "."
               \o FractionStr(magnitude % Scale, FractionDigits)
      [] OTHER -> br_value.kind

\* lines 430-449: one BitRate element found below one details element
CheckBitRate(tree, i) ==
    LET text == tree.elements[i].text
        br_value == float(text)
    IN IF text = "" THEN <<>>
       ELSE IF br_value.kind = "error"
            THEN <<RuleIssue(ERROR, "INVALID_BITRATE", _get_element_path(tree, i), None)>>
            ELSE IF UnusualBitRate(br_value)
                 THEN <<RuleIssue(WARNING, "UNUSUAL_BITRATE",
                                  _get_element_path(tree, i), FloatStr(br_value))>>
                 ELSE <<>>

\* lines 428-449: the BitRate elements below one details element
CheckDetails(tree, details) ==
    LET bitrates == xpath(tree, details, {"BitRate"})
    IN Flatten([k \in 1..Len(bitrates) |-> CheckBitRate(tree, bitrates[k])])

\* validate_technical_details, lines 419-451
validate_technical_details(tree) ==
    LET audio_details == xpath(tree, 0, {"TechnicalSoundRecordingDetails"})
    IN Flatten([k \in 1..Len(audio_details) |-> CheckDetails(tree, audio_details[k])])

\* the BitRate texts of the trees with several elements
FewBitRateTexts == {"999", "128", "abc"}

\* the BitRate texts of the trees with one BitRate
BitRateTexts ==
    {"", " ", "abc", "63", "64", "320", "321", "63.9", "64.0", "320.0", "320.5",
     "128", "999", " 128\n", "-5", "+96", "nan", "inf", "12k", "1.2.3"}

\* the trees of details and BitRate elements: an element lies in the root or
\* in a details element before it
TechnicalTrees ==
    {Tree("NewReleaseMessage", els) :
        els \in {s \in SeqsUpTo(
                          {Element("TechnicalSoundRecordingDetails", "", None, q) :
                               q \in 0..(MaxElements - 1)}
                          \cup {Element("BitRate", text, None, q) :
                                   text \in FewBitRateTexts, q \in 0..(MaxElements - 1)},
                          MaxElements) :
                    \A i \in 1..Len(s) :
                        /\ s[i].parent < i
                        /\ s[i].parent > 0 =>
                              s[s[i].parent].tag = "TechnicalSoundRecordingDetails"}}
    \cup {Tree("NewReleaseMessage",
               <<Element("TechnicalSoundRecordingDetails", "", None, 0),
                 Element("BitRate", text, None, 1)>>) : text \in BitRateTexts}

----------------------------------------------------------------------------
(* rules.py: _get_element_path on its own *)

\* the tags of the trees: with and without a namespace
PathTags == {"ISRC", "{http://ddex.net/xml/ern/382}ISRC", "SoundRecording"}

\* the trees given to _get_element_path: every element lies in the root or in
\* an element before it
PathTrees ==
    {Tree(tag, els) :
        tag \in {"NewReleaseMessage", "{http://ddex.net/xml/ern/382}NewReleaseMessage"},
        els \in {s \in SeqsUpTo({Element(t, "", None, q) :
                                     t \in PathTags, q \in 0..(MaxElements - 1)},
                                MaxElements) :
                    \A i \in 1..Len(s) : s[i].parent < i}}

\* _get_element_path returned path for the element at position node
PathOf(node, path) == [node |-> node, path |-> path]

----------------------------------------------------------------------------
(* One call of one checker *)

\* the trees each checker is called on
RuleTrees(name) ==
    CASE name = "_validate_duplicate_identifiers" -> DuplicateTrees
      [] name = "_validate_resource_references" -> ReferenceTrees
      [] name = "validate_identifiers" -> IdentifierTrees
      [] name = "validate_durations" -> DurationTrees
      [] name = "validate_required_elements" -> RequiredTrees
      [] name = "validate_technical_details" -> TechnicalTrees
      [] name = "_get_element_path" -> PathTrees

Rules ==
    {"_validate_duplicate_identifiers", "_validate_resource_references",
     "validate_identifiers", "validate_durations",
     "validate_required_elements", "validate_technical_details",
     "_get_element_path"}

RulesInit ==
    /\ ValidatorIdle
    /\ CacheIdle
    /\ ExtraIdle
    /\ rule \in Rules
    /\ root \in RuleTrees(rule)
    /\ rule_result = NoResult

\* validate_business_logic, line 415: the duplicate check is called
ValidateDuplicateIdentifiers ==
    /\ rule = "_validate_duplicate_identifiers"
    /\ rule_result = NoResult
    /\ rule_result' = Returned(_validate_duplicate_identifiers(root))
    /\ UNCHANGED <<validatorvars, cachevars, extravars, rule, root>>

\* validate_business_logic, line 412: the reference check is called
ValidateResourceReferences ==
    /\ rule = "_validate_resource_references"
    /\ rule_result = NoResult
    /\ \E list \in _validate_resource_references(root) :
          rule_result' = Returned(list)
    /\ UNCHANGED <<validatorvars, cachevars, extravars, rule, root>>

\* _validate_business_rules, validator.py line 355: validate_identifiers is
\* called, at some time of the clock
ValidateIdentifiers ==
    /\ rule = "validate_identifiers"
    /\ rule_result = NoResult
    /\ \E now_year \in Years :
          rule_result' = ReturnedAt(validate_identifiers(root, now_year), now_year)
    /\ UNCHANGED <<validatorvars, cachevars, extravars, rule, root>>

\* _validate_business_rules, validator.py line 358: validate_durations is
\* called
ValidateDurations ==
    /\ rule = "validate_durations"
    /\ rule_result = NoResult
    /\ rule_result' = validate_durations(root)
    /\ UNCHANGED <<validatorvars, cachevars, extravars, rule, root>>

\* _validate_business_rules, validator.py lines 370-371: with a message type
\* detected, validate_required_elements is called with it
ValidateRequiredElements ==
    /\ rule = "validate_required_elements"
    /\ rule_result = NoResult
    /\ detect_message_type(root) # None
    /\ rule_result' = Returned(validate_required_elements(root,
                                                          detect_message_type(root)))
    /\ UNCHANGED <<validatorvars, cachevars, extravars, rule, root>>

\* _validate_business_rules, validator.py line 377:
\* validate_technical_details is called
ValidateTechnicalDetails ==
    /\ rule = "validate_technical_details"
    /\ rule_result = NoResult
    /\ rule_result' = Returned(validate_technical_details(root))
    /\ UNCHANGED <<validatorvars, cachevars, extravars, rule, root>>

\* a checker asks for the path of an element of the tree (as in line 36)
GetElementPath ==
    /\ rule = "_get_element_path"
    /\ rule_result = NoResult
    /\ \E element \in 1..Len(root.elements) :
          rule_result' = PathOf(element, _get_element_path(root, element))
    /\ UNCHANGED <<validatorvars, cachevars, extravars, rule, root>>

RulesNext ==
    \/ GetElementPath
    \/ ValidateTechnicalDetails
    \/ ValidateIdentifiers
    \/ ValidateDurations
    \/ ValidateRequiredElements
    \/ ValidateDuplicateIdentifiers
    \/ ValidateResourceReferences

RulesSpec == RulesInit /\ [][RulesNext]_vars

----------------------------------------------------------------------------
(* Properties *)

\* every ValidationResult a caller holds
ReturnedResults ==
    {r \in {result, file_result} \cup {results[v] : v \in Validators}
           \cup {batch_results[i] : i \in 1..Len(batch_results)} :
        r # NoResult /\ r # Raised}

Codes(issues) == [i \in 1..Len(issues) |-> issues[i].error_code]

\* C1: in every result returned by validate_string, validate_file or
\* validate_batch, is_valid is true exactly when the errors list is empty,
\* whatever warnings and info hold
C1_ValidIffNoErrors ==
    \A r \in ReturnedResults : r.is_valid <=> (Len(r.errors) = 0)

C1_Witness ==
    /\ pc = "DONE"
    /\ result.is_valid
    /\ Len(result.warnings) > 0
    /\ Len(result.info) > 0

\* C2: once both the normal and the strict validator have returned a result
\* for the document, every error of the normal result is an error of the
\* strict result, the strict result has as many errors as the normal result
\* has errors and warnings together, and the strict result has no warnings
C2_StrictVersusNormal ==
    LET n == results["normal"]
        t == results["strict"]
    IN (n \notin {NoResult, Raised} /\ t \notin {NoResult, Raised}) =>
          /\ \A i \in 1..Len(n.errors) :
                \E j \in 1..Len(t.errors) : t.errors[j] = n.errors[i]
          /\ Len(t.errors) = Len(n.errors) + Len(n.warnings)
          /\ Len(t.warnings) = 0

C2_Witness ==
    /\ results["normal"] \notin {NoResult, Raised}
    /\ results["strict"] \notin {NoResult, Raised}
    /\ Len(results["normal"].warnings) > 0
    /\ Len(results["normal"].errors) > 0

\* C3: a text that does not parse gets a result of exactly one error, coded
\* XML_SYNTAX_ERROR or XML_PARSE_ERROR, invalid, without warnings or info; the
\* call never reaches the schema check, loads no schema and runs no checker
C3_ParseFailure ==
    doc.parse # "ok" =>
        /\ pc \notin {"SCHEMA_CHECK", "CRITICAL", "OK", "BUSINESS_RULES",
                      "ASSEMBLE", "DONE", "RAISED"}
        /\ ran = {}
        /\ schema_errors = <<>>
        /\ \A v \in Validators : schema_cache[v] = {}
        /\ pc = "PARSE_FAILED" =>
              /\ Len(result.errors) = 1
              /\ result.errors[1].severity = ERROR
              /\ result.errors[1].error_code \in {"XML_SYNTAX_ERROR", "XML_PARSE_ERROR"}
              /\ ~result.is_valid
              /\ result.warnings = <<>>
              /\ result.info = <<>>

C3_Witness ==
    /\ pc = "PARSE_FAILED"
    /\ result.errors[1].error_code = "XML_PARSE_ERROR"

\* C4: once a call on a parsed document is past the schema check, its
\* checkers have run exactly when business rules are enabled and no schema
\* error carries one of the four critical codes; every schema error is
\* reported as an ERROR either way
C4_BusinessRuleGate ==
    pc \in {"ASSEMBLE", "DONE"} =>
        /\ (ran # {}) <=>
              /\ use_business_rules
              /\ \A i \in 1..Len(schema_errors) :
                    schema_errors[i].error_code \notin
                        {"SCHEMA_NOT_FOUND", "SCHEMA_LOAD_ERROR",
                         "XML_SYNTAX_ERROR", "XML_PARSE_ERROR"}
        /\ \A i \in 1..Len(schema_errors) :
              /\ schema_errors[i].severity = ERROR
              /\ errors[i] = schema_errors[i]

C4_Witness ==
    /\ pc = "DONE"
    /\ Len(schema_errors) > 0
    /\ schema_errors[1].error_code = "SCHEMA_VALIDATION_ERROR"
    /\ ran = Categories

\* a result of exactly one ERROR with the given code, invalid, with no
\* warnings and no info
SingleError(r, codes) ==
    /\ Len(r.errors) = 1
    /\ r.errors[1].severity = ERROR
    /\ r.errors[1].error_code \in codes
    /\ ~r.is_valid
    /\ r.warnings = <<>>

\* the results of the failures that end the processing of the document: a
\* file that is missing, unreadable or undecodable, a parse failure, a schema
\* that is not found or cannot be loaded
FatalResultsHave(P(_)) ==
    /\ pc = "PARSE_FAILED" =>
          /\ SingleError(result, {"XML_SYNTAX_ERROR", "XML_PARSE_ERROR"})
          /\ P(result)
    /\ \A i \in 1..Len(batch_results) :
          /\ file_paths[i] = "missing.xml" =>
                SingleError(batch_results[i], {"FILE_NOT_FOUND"}) /\ P(batch_results[i])
          /\ file_paths[i] = "locked.xml" =>
                SingleError(batch_results[i], {"FILE_READ_ERROR"}) /\ P(batch_results[i])
          /\ file_paths[i] = "binary.xml" =>
                SingleError(batch_results[i], {"FILE_ENCODING_ERROR"}) /\ P(batch_results[i])
    /\ (pc = "FILE_DONE" /\ file_paths[1] = "missing.xml") =>
          SingleError(file_result, {"FILE_NOT_FOUND"}) /\ P(file_result)
    /\ (pc = "FILE_DONE" /\ file_paths[1] = "locked.xml") =>
          SingleError(file_result, {"FILE_READ_ERROR"}) /\ P(file_result)
    /\ (pc = "FILE_DONE" /\ file_paths[1] = "binary.xml") =>
          SingleError(file_result, {"FILE_ENCODING_ERROR"}) /\ P(file_result)
    /\ (pc = "DONE" /\ doc.env.lookup = "none") =>
          SingleError(result, {"SCHEMA_NOT_FOUND"}) /\ P(result)
    /\ (pc = "DONE" /\ doc.env.lookup = "found" /\ doc.env.load = "fails") =>
          SingleError(result, {"SCHEMA_LOAD_ERROR"}) /\ P(result)

NoInfo(r) == r.info = <<>>

\* the info of r holds nothing but the detected version and message type
\* (and the message type of a parsed document is always detected)
OnlyDetectedInfo(r) ==
    /\ \A i \in 1..Len(r.info) :
          r.info[i].error_code \in {"DDEX_VERSION_DETECTED", "MESSAGE_TYPE_DETECTED"}
    /\ (r.message_type = None /\ r.ddex_version = None) => r.info = <<>>
    /\ r.message_type # None => Len(r.info) > 0

\* C5 as stated: every fatal failure yields one ERROR with its code, an
\* invalid result, no warnings and no info
C5_Original == FatalResultsHave(NoInfo)

\* C5 as amended: every fatal failure yields one ERROR with its code, an
\* invalid result and no warnings; the info list is empty for the failures
\* built by ValidationResult.failure, while a parsed document whose schema is
\* not found or not loadable keeps the info issues of its detected version
\* and message type
C5_FatalFailures == FatalResultsHave(OnlyDetectedInfo)

C5_Witness ==
    /\ pc = "DONE"
    /\ doc.env.lookup = "found"
    /\ doc.env.load = "fails"
    /\ Len(doc.findings) > 0
    /\ use_business_rules
    /\ Len(result.info) = 2

\* the issues of checker category c in a list
FromCategory(issues, c) == {i \in 1..Len(issues) : issues[i].src = c}

\* C6 as stated: when the checkers have run, every dispatched category was
\* called; a category that raised left exactly one ERROR coded
\* BUSINESS_RULE_ERROR or BUSINESS_RULE_PROCESSING_ERROR, and every other
\* category, before or after it, contributed all its issues
C6_Claim ==
    (pc \in {"ASSEMBLE", "DONE"} /\ ran # {}) =>
        \A c \in Categories :
            Dispatched(c, message_type) =>
                /\ c \in ran
                /\ IF CheckerRaises(doc, c)
                   THEN /\ Cardinality(FromCategory(errors, c)) = 1
                        /\ \A i \in FromCategory(errors, c) :
                              errors[i].error_code \in
                                  {"BUSINESS_RULE_ERROR", "BUSINESS_RULE_PROCESSING_ERROR"}
                        /\ FromCategory(warnings, c) = {}
                   ELSE Cardinality(FromCategory(errors, c))
                            + Cardinality(FromCategory(warnings, c))
                        = Cardinality(FindingsOf(doc, c))

\* C7 as stated: a call that has ended has returned a ValidationResult, no
\* exception having left validate_string
C7_Claim ==
    pc \in Terminal => (result # NoResult /\ results[cur] # Raised)

\* the positions of a validate_string call
CallStates ==
    {"START", "PARSE", "PARSE_FAILED", "SCHEMA_CHECK", "CRITICAL", "OK",
     "BUSINESS_RULES", "ASSEMBLE", "DONE", "RAISED"}

\* the state machine as stated
StatedEdges ==
    {<<"START", "PARSE">>, <<"PARSE", "PARSE_FAILED">>,
     <<"PARSE", "SCHEMA_CHECK">>, <<"SCHEMA_CHECK", "CRITICAL">>,
     <<"SCHEMA_CHECK", "OK">>, <<"CRITICAL", "ASSEMBLE">>,
     <<"OK", "BUSINESS_RULES">>, <<"BUSINESS_RULES", "ASSEMBLE">>,
     <<"ASSEMBLE", "DONE">>}

\* a step of the running call follows an edge of E; a call is left only from
\* a state of T, and entered only at START
Follows(E, T) ==
    /\ (pc \in CallStates /\ pc \notin T) => <<pc, pc'>> \in E
    /\ (pc \in T \/ pc \notin CallStates) => pc' \notin (CallStates \ {"START"})

\* C8 as stated: every step of a call follows START -> PARSE ->
\* {PARSE_FAILED | SCHEMA_CHECK -> {CRITICAL -> ASSEMBLE | OK ->
\* BUSINESS_RULES -> ASSEMBLE}} -> DONE, and a call is left in PARSE_FAILED
\* or DONE only.  The exception that leaves SCHEMA_CHECK (C7) is not held
\* against the stated machine here: it is let through as an abnormal end
C8_Original ==
    [][Follows(StatedEdges \cup {<<"SCHEMA_CHECK", "RAISED">>}, Terminal)]_vars

\* C8 as amended: the stated machine, where OK leads to BUSINESS_RULES when
\* business rules are in effect and straight to ASSEMBLE when they are not,
\* and where a call returns in PARSE_FAILED or DONE only, its one other end
\* being the exception that leaves SCHEMA_CHECK (C7)
C8_StateMachine ==
    [][/\ Follows((StatedEdges \ {<<"OK", "BUSINESS_RULES">>})
                      \cup {<<"SCHEMA_CHECK", "RAISED">>}
                      \cup (IF use_business_rules
                            THEN {<<"OK", "BUSINESS_RULES">>}
                            ELSE {<<"OK", "ASSEMBLE">>}),
                  Terminal)
       /\ (pc' \in CallStates /\ result' # NoResult)
              <=> pc' \in {"PARSE_FAILED", "DONE"}]_vars

C8_Witness ==
    /\ pc = "DONE"
    /\ ~use_business_rules
    /\ ~_has_critical_errors(schema_errors)
    /\ ran = {}

\* the issues of a list are in detection order: the schema errors first, the
\* checker categories in dispatch order, the issues of one source in the
\* order it found them
InDetectionOrder(issues) ==
    \A i, j \in 1..Len(issues) :
        i < j => \/ issues[i].src < issues[j].src
                 \/ /\ issues[i].src = issues[j].src
                    /\ issues[i].key < issues[j].key

BusinessIssues(issues) == SelectSeq(issues, LAMBDA x : x.src > 0)

\* C9: in every result of validate_string the errors are in detection order,
\* schema errors before the issues of the checkers and these in dispatch
\* order (promoted warnings included), and so are the warnings and the
\* business-rule info
C9_DetectionOrder ==
    pc = "DONE" =>
        /\ InDetectionOrder(result.errors)
        /\ InDetectionOrder(result.warnings)
        /\ InDetectionOrder(BusinessIssues(result.info))
        /\ SelectSeq(result.errors, LAMBDA x : x.src = 0) = schema_errors

C9_Witness ==
    /\ pc = "DONE"
    /\ strict_mode(cur)
    /\ Len(result.errors) = 3
    /\ result.errors[1].error_code = "SCHEMA_VALIDATION_ERROR"
    /\ result.errors[2].error_code = "SUSPICIOUS_ISRC_YEAR"
    /\ result.errors[3].error_code = "INVALID_DATE"

\* C10: validate_batch returns one result per path, in the order of the
\* paths: a missing, unreadable or undecodable file, or one whose validation
\* raised, has a failed single-error result, and every path that holds the
\* document has the result of validating it
C10_Batch ==
    pc = "BATCH_DONE" =>
        /\ Len(batch_results) = Len(file_paths)
        /\ \A i \in 1..Len(file_paths) :
              LET r == batch_results[i] IN
              CASE file_paths[i] = "missing.xml" -> SingleError(r, {"FILE_NOT_FOUND"})
                [] file_paths[i] = "locked.xml" -> SingleError(r, {"FILE_READ_ERROR"})
                [] file_paths[i] = "binary.xml" -> SingleError(r, {"FILE_ENCODING_ERROR"})
                [] OTHER ->
                      IF results[cur] = Raised
                      THEN SingleError(r, {"FILE_READ_ERROR"})
                      ELSE /\ r.file_path = file_paths[i]
                           /\ r.errors = results[cur].errors
                           /\ r.warnings = results[cur].warnings
                           /\ r.info = results[cur].info
                           /\ r.is_valid = results[cur].is_valid

C10_Witness ==
    /\ pc = "BATCH_DONE"
    /\ file_paths = <<"missing.xml", "good.xml">>
    /\ batch_results[2].is_valid

\* the number of XMLSchema objects constructed for schema path p
Loads(p) == Cardinality({i \in 1..Len(created) : created[i] = p})

\* C11 as stated: whatever the threads do, the schema of one path is loaded
\* at most once, and the calls that returned for one path all hold the same
\* schema object
C11_Claim ==
    /\ \A p \in SchemaPaths : Loads(p) <= 1
    /\ \A t, u \in Threads :
          (t_pc[t] = "done" /\ t_pc[u] = "done" /\ t_path[t] = t_path[u])
              => t_schema[t] = t_schema[u]

\* the issues of a list that carry the given code and context, in order
IssuesWith(list, code, context) ==
    SelectSeq(list, LAMBDA x : x.error_code = code /\ x.context = context)

\* the elements of the tree with the given tag whose trimmed text is value,
\* in document order
Occurrences(tree, tag, value) ==
    SelectSeq(xpath(tree, 0, {tag}),
              LAMBDA i : tree.elements[i].text # ""
                         /\ strip(tree.elements[i].text) = value)

\* the duplicate errors for one identifier kind are, value by value, one
\* ERROR for each occurrence after the first, with that occurrence's path
DuplicatesFlagged(tree, list, tag, code) ==
    /\ \A i \in 1..Len(tree.elements) :
          LET value == strip(tree.elements[i].text)
              occ == Occurrences(tree, tag, value)
              got == IssuesWith(list, code, value)
          IN value # "" =>
                /\ Len(got) = (IF Len(occ) > 1 THEN Len(occ) - 1 ELSE 0)
                /\ \A k \in 1..Len(got) :
                      /\ got[k].severity = ERROR
                      /\ got[k].element_path = _get_element_path(tree, occ[k + 1])
    /\ \A k \in 1..Len(list) :
          list[k].error_code = code => list[k].element_path #
              _get_element_path(tree, xpath(tree, 0, {tag})[1])

\* C12: for ISRC and for GRid, a trimmed non-empty value held by k > 1
\* elements gets exactly k-1 DUPLICATE_ISRC (DUPLICATE_GRID) errors, one for
\* each occurrence after the first, in document order and with the path of
\* that occurrence; a value held once gets none, and the first element of a
\* kind is never flagged
C12_Duplicates ==
    (rule = "_validate_duplicate_identifiers" /\ rule_result # NoResult) =>
        /\ DuplicatesFlagged(root, rule_result.issues, "ISRC", "DUPLICATE_ISRC")
        /\ DuplicatesFlagged(root, rule_result.issues, "GRid", "DUPLICATE_GRID")

C12_Witness ==
    /\ rule = "_validate_duplicate_identifiers"
    /\ rule_result # NoResult
    /\ Len(root.elements) = 3
    /\ \A i \in 1..3 : root.elements[i].tag = "ISRC"
    /\ root.elements[1].text = "QZ\n"
    /\ root.elements[2].text = " QZ"
    /\ Len(IssuesWith(rule_result.issues, "DUPLICATE_ISRC", "QZ")) = 2

\* the elements whose text is read as a resource reference
ReferenceNodes(tree) ==
    {i \in 1..Len(tree.elements) :
        /\ tree.elements[i].tag \in {"ReleaseResourceReference", "ResourceReference"}
        /\ tree.elements[i].text # ""}

\* the elements that carry a ResourceReference attribute
AnchorNodes(tree) ==
    {i \in 1..Len(tree.elements) : tree.elements[i].attr # None}

\* the resource ids a tree mentions, on either side
MentionedIds(tree) ==
    {strip(tree.elements[i].text) : i \in ReferenceNodes(tree)}
    \cup {tree.elements[i].attr : i \in AnchorNodes(tree)}
    \cup {strip(tree.elements[i].attr) : i \in AnchorNodes(tree)}

CountWith(list, code, context) == Len(IssuesWith(list, code, context))

\* C13: an id that is the (trimmed) text of a reference element and the
\* value of no ResourceReference attribute gets exactly one
\* UNDEFINED_RESOURCE_REFERENCE error, and an id that is the value of a
\* ResourceReference attribute and the text of no reference element gets
\* exactly one UNUSED_RESOURCE warning, however often it occurs
C13_ReferenceIntegrity ==
    (rule = "_validate_resource_references" /\ rule_result # NoResult) =>
        \A id \in MentionedIds(root) \ {""} :
            LET referenced == \E i \in ReferenceNodes(root) :
                                 strip(root.elements[i].text) = id
                defined == \E i \in AnchorNodes(root) : root.elements[i].attr = id
                undefined == IssuesWith(rule_result.issues,
                                        "UNDEFINED_RESOURCE_REFERENCE", id)
                unused == IssuesWith(rule_result.issues, "UNUSED_RESOURCE", id)
            IN /\ (referenced /\ ~defined) =>
                      (Len(undefined) = 1 /\ undefined[1].severity = ERROR)
               /\ (defined /\ ~referenced) =>
                      (Len(unused) = 1 /\ unused[1].severity = WARNING)

C13_Witness ==
    /\ rule = "_validate_resource_references"
    /\ rule_result # NoResult
    /\ Len(root.elements) = 3
    /\ root.elements[1].tag = "ReleaseResourceReference"
    /\ root.elements[1].text = "R2"
    /\ root.elements[2].tag = "ResourceReference"
    /\ root.elements[2].text = "R2"
    /\ root.elements[3].attr = "R1"
    /\ Len(rule_result.issues) = 2
    /\ rule_result.issues[1].error_code = "UNDEFINED_RESOURCE_REFERENCE"
    /\ rule_result.issues[2].error_code = "UNUSED_RESOURCE"

\* C14 as stated: an id that is both the value of a ResourceReference
\* attribute and the text of a reference element, surrounding whitespace
\* being set aside on both sides alike, is reported neither as undefined nor
\* as unused
C14_Claim ==
    (rule = "_validate_resource_references" /\ rule_result # NoResult) =>
        \A id \in MentionedIds(root) \ {""} :
            LET referenced == \E i \in ReferenceNodes(root) :
                                 strip(root.elements[i].text) = strip(id)
                defined == \E i \in AnchorNodes(root) :
                              strip(root.elements[i].attr) = strip(id)
            IN (referenced /\ defined) =>
                  \A k \in 1..Len(rule_result.issues) :
                      strip(rule_result.issues[k].context) # strip(id)

\* the issues of a list that are reported at element i of the tree
IssuesAt(tree, list, i) ==
    SelectSeq(list, LAMBDA x : x.element_path = _get_element_path(tree, i))

ErrorsAt(tree, list, i) ==
    SelectSeq(IssuesAt(tree, list, i), LAMBDA x : x.severity = ERROR)

\* the elements of the tree with the given tag
Nodes(tree, tag) == {i \in 1..Len(tree.elements) : tree.elements[i].tag = tag}

\* digit k of a code, positions counted from 0
Digit(code, k) == DigitValue(Char(code, k + 1))

\* the check digit of a 12-digit code as stated
StatedCheck12(c) ==
    (10 - ((3 * (Digit(c, 0) + Digit(c, 2) + Digit(c, 4) + Digit(c, 6)
                 + Digit(c, 8) + Digit(c, 10))
            + (Digit(c, 1) + Digit(c, 3) + Digit(c, 5) + Digit(c, 7)
               + Digit(c, 9))) % 10)) % 10

\* the check digit of a 13-digit code as stated
StatedCheck13(c) ==
    (10 - (((Digit(c, 0) + Digit(c, 2) + Digit(c, 4) + Digit(c, 6)
             + Digit(c, 8) + Digit(c, 10))
            + 3 * (Digit(c, 1) + Digit(c, 3) + Digit(c, 5) + Digit(c, 7)
                   + Digit(c, 9) + Digit(c, 11))) % 10)) % 10

StatedAccepts(c) ==
    IF Len(c) = 12 THEN Digit(c, 11) = StatedCheck12(c)
    ELSE Digit(c, 12) = StatedCheck13(c)

\* C15: a 12-digit ICPN is accepted by the checksum validator exactly when
\* its last digit is (10 - ((3*(d0+d2+..+d10) + (d1+d3+..+d9)) mod 10)) mod
\* 10, a 13-digit ICPN exactly when its last digit is (10 - (((d0+d2+..+d10)
\* + 3*(d1+d3+..+d11)) mod 10)) mod 10; an ICPN element with a well-formed
\* value that is not accepted gets one INVALID_ICPN_CHECKSUM warning and no
\* error, an accepted one gets no issue
C15_ICPNChecksum ==
    (rule = "validate_identifiers" /\ rule_result # NoResult) =>
        \A i \in Nodes(root, "ICPN") :
            LET code == strip(root.elements[i].text)
                got == IssuesAt(root, rule_result.issues, i)
            IN (root.elements[i].text # "" /\ MatchesICPN(code)) =>
                  /\ _validate_icpn_checksum(code) <=> StatedAccepts(code)
                  /\ IF StatedAccepts(code)
                     THEN got = <<>>
                     ELSE /\ Len(got) = 1
                          /\ got[1].severity = WARNING
                          /\ got[1].error_code = "INVALID_ICPN_CHECKSUM"

C15_Witness ==
    /\ rule = "validate_identifiers"
    /\ rule_result # NoResult
    /\ Len(root.elements) = 2
    /\ root.elements[1].text = "4006381333932"
    /\ root.elements[2].text = "036000291452"
    /\ \A i \in 1..2 : root.elements[i].tag = "ICPN"
    /\ Len(rule_result.issues) = 1
    /\ rule_result.issues[1].error_code = "INVALID_ICPN_CHECKSUM"

\* what the identifier check reports at the ISRC elements: nothing when
\* Shown(text) matches the ISRC pattern, otherwise exactly one error, coded
\* INVALID_ISRC or EMPTY_ISRC
ISRCErrors(Shown(_)) ==
    (rule = "validate_identifiers" /\ rule_result # NoResult) =>
        \A i \in Nodes(root, "ISRC") :
            LET got == ErrorsAt(root, rule_result.issues, i) IN
            IF MatchesISRC(Shown(root.elements[i].text))
            THEN got = <<>>
            ELSE /\ Len(got) = 1
                 /\ got[1].error_code \in {"INVALID_ISRC", "EMPTY_ISRC"}

AsWritten(text) == text

\* C16 as stated: an ISRC element gets no error when its text matches the
\* ISRC pattern, and otherwise exactly one error, INVALID_ISRC or EMPTY_ISRC
C16_Original == ISRCErrors(AsWritten)

\* C16 as amended: an ISRC element gets no error when its text, surrounding
\* whitespace removed, matches the ISRC pattern, and otherwise exactly one
\* error, INVALID_ISRC or EMPTY_ISRC
C16_ISRC == ISRCErrors(strip)

C16_Witness ==
    /\ rule = "validate_identifiers"
    /\ rule_result # NoResult
    /\ Len(root.elements) = 2
    /\ root.elements[1].tag = "ISRC"
    /\ root.elements[1].text = "US-RC17607839"
    /\ root.elements[2].tag = "ISRC"
    /\ root.elements[2].text = ""
    /\ Len(rule_result.issues) = 2
    /\ rule_result.issues[1].error_code = "INVALID_ISRC"
    /\ rule_result.issues[2].error_code = "EMPTY_ISRC"

\* the <KIND> of the error codes of an identifier kind
KindCode(kind) ==
    CASE kind = "GRid" -> "GRID"
      [] kind = "ISRC" -> "ISRC"
      [] kind = "ISAN" -> "ISAN"
      [] kind = "VISAN" -> "VISAN"
      [] OTHER -> "ICPN"

\* C17 as stated: an element of any of the five identifier kinds that has no
\* text gets an ERROR coded EMPTY_<KIND>
C17_Claim ==
    (rule = "validate_identifiers" /\ rule_result # NoResult) =>
        \A kind \in IdentifierKinds :
            \A i \in Nodes(root, kind) :
                root.elements[i].text = "" =>
                    \E k \in 1..Len(rule_result.issues) :
                        /\ rule_result.issues[k].element_path = _get_element_path(root, i)
                        /\ rule_result.issues[k].severity = ERROR
                        /\ rule_result.issues[k].error_code = "EMPTY_" \o KindCode(kind)

\* the numeral before the letter in the group ([0-9]+<letter>)? that str
\* starts with, "" when the group is absent
GroupDigits(str, letter) ==
    IF AfterGroup(str, letter) = str THEN ""
    ELSE SubSeq(str, 1, RunLen(str, Digits))

\* the stated total of a text that matches the PT pattern, in units of
\* 10^-FractionDigits: hours*3600 + minutes*60 + seconds, read off the groups
\* of the pattern; long is set for a numeral too long to compute with, whose
\* total is beyond every limit
StatedTotal(text) ==
    LET body == Drop(text, 2)
        h == GroupDigits(body, "H")
        afterH == AfterGroup(body, "H")
        m == GroupDigits(afterH, "M")
        afterM == AfterGroup(afterH, "M")
        sec == IF afterM = "" THEN "0" ELSE SubSeq(afterM, 1, Len(afterM) - 1)
    IN IF Len(h) > SmallDigits \/ Len(m) > SmallDigits
       THEN [long |-> TRUE, value |-> 0]
       ELSE [long |-> FALSE,
             value |-> (ToInt(h) * 3600 + ToInt(m) * 60) * Scale
                       + FloatOf(sec).value]

\* what is stated for the Duration elements whose text matches the pattern:
\* one UNUSUALLY_LONG_DURATION warning above 7200 s, one
\* UNUSUALLY_SHORT_DURATION warning below 1 s, nothing in between
DurationsAsStated(tree, res) ==
    \A i \in Nodes(tree, "Duration") :
        LET text == tree.elements[i].text
            total == StatedTotal(text)
        IN (text # "" /\ MatchesDURATION(text)) =>
              /\ res # Raised
              /\ LET got == IssuesAt(tree, res.issues, i) IN
                 IF total.long \/ total.value > 7200 * Scale
                 THEN /\ Len(got) = 1
                      /\ got[1].severity = WARNING
                      /\ got[1].error_code = "UNUSUALLY_LONG_DURATION"
                 ELSE IF total.value < Scale
                      THEN /\ Len(got) = 1
                           /\ got[1].severity = WARNING
                           /\ got[1].error_code = "UNUSUALLY_SHORT_DURATION"
                      ELSE got = <<>>

\* C18 as stated: every Duration element whose text matches the PT pattern
\* gets exactly one UNUSUALLY_LONG_DURATION warning when hours*3600 +
\* minutes*60 + seconds is above 7200, exactly one UNUSUALLY_SHORT_DURATION
\* warning when it is below 1, and no issue otherwise
C18_Claim ==
    (rule = "validate_durations" /\ rule_result # NoResult) =>
        DurationsAsStated(root, rule_result)

\* the number of issues of a list with the given severity and code
CountOf(list, sev, code) ==
    Len(SelectSeq(list, LAMBDA x : x.severity = sev /\ x.error_code = code))

\* the number of issues of a list with the given code, of any severity
CountCode(list, code) == Len(SelectSeq(list, LAMBDA x : x.error_code = code))

\* the number of errors of a list that name the given header element
HeaderErrors(list, name) ==
    Len(SelectSeq(list, LAMBDA x : x.severity = ERROR /\ x.context = name))

\* the document holds an element with the given tag
Present(tree, tag) == Nodes(tree, tag) # {}

\* the first MessageHeader of a document that has one
FirstHeader(tree) ==
    CHOOSE h \in Nodes(tree, "MessageHeader") :
        \A g \in Nodes(tree, "MessageHeader") : h <= g

\* the header holds no element with the given tag
MissingFrom(tree, header, tag) ==
    ~\E i \in Nodes(tree, tag) : i # header /\ IsAncestorOrSelf(tree, header, i)

\* C19: for a NewReleaseMessage the required-element check gives one
\* MISSING_MESSAGE_HEADER error when the document has no MessageHeader and
\* none when it has one; with a MessageHeader, one error for each of the five
\* required elements that the (first) header does not hold and none for one
\* it holds; one MISSING_RELEASE_LIST error exactly when there is no
\* ReleaseList; one MISSING_RESOURCE_LIST warning, and no such error, exactly
\* when there is no ResourceList
C19_RequiredElements ==
    (/\ rule = "validate_required_elements"
     /\ rule_result # NoResult
     /\ root.tag = "NewReleaseMessage") =>
        LET list == rule_result.issues
            Once(b) == IF b THEN 1 ELSE 0
        IN /\ CountOf(list, ERROR, "MISSING_MESSAGE_HEADER")
                 = Once(~Present(root, "MessageHeader"))
           /\ CountCode(list, "MISSING_MESSAGE_HEADER")
                 = CountOf(list, ERROR, "MISSING_MESSAGE_HEADER")
           /\ Present(root, "MessageHeader") =>
                 \A name \in {"MessageThreadId", "MessageId", "MessageSender",
                              "MessageRecipient", "MessageCreatedDateTime"} :
                     HeaderErrors(list, name)
                         = Once(MissingFrom(root, FirstHeader(root), name))
           /\ CountOf(list, ERROR, "MISSING_RELEASE_LIST")
                 = Once(~Present(root, "ReleaseList"))
           /\ CountCode(list, "MISSING_RELEASE_LIST")
                 = CountOf(list, ERROR, "MISSING_RELEASE_LIST")
           /\ CountOf(list, WARNING, "MISSING_RESOURCE_LIST")
                 = Once(~Present(root, "ResourceList"))
           /\ CountCode(list, "MISSING_RESOURCE_LIST")
                 = CountOf(list, WARNING, "MISSING_RESOURCE_LIST")

\* a NewReleaseMessage root with no children has been checked and got the two
\* errors and the warning
C19_Witness ==
    /\ rule = "validate_required_elements"
    /\ rule_result # NoResult
    /\ root = Tree("NewReleaseMessage", <<>>)
    /\ Len(rule_result.issues) = 3
    /\ CountOf(rule_result.issues, ERROR, "MISSING_MESSAGE_HEADER") = 1
    /\ CountOf(rule_result.issues, ERROR, "MISSING_RELEASE_LIST") = 1
    /\ CountOf(rule_result.issues, WARNING, "MISSING_RESOURCE_LIST") = 1

\* C20: for a message type other than NewReleaseMessage and
\* CatalogListMessage the required-element check returns no issues, whatever
\* the document holds
C20_OtherMessageTypes ==
    (/\ rule = "validate_required_elements"
     /\ rule_result # NoResult
     /\ root.tag \notin {"NewReleaseMessage", "CatalogListMessage"}) =>
        rule_result = Returned(<<>>)

\* a document of a type without rules, with neither MessageHeader nor
\* ReleaseList, has been checked without an issue
C20_Witness ==
    /\ rule = "validate_required_elements"
    /\ rule_result = Returned(<<>>)
    /\ root.tag = "FutureMessage"
    /\ ~Present(root, "MessageHeader")
    /\ ~Present(root, "ReleaseList")
    /\ Present(root, "ResourceList")

\* the BitRate elements that lie in a TechnicalSoundRecordingDetails element
BitRatesUnderDetails(tree) ==
    {i \in Nodes(tree, "BitRate") :
        \E d \in Nodes(tree, "TechnicalSoundRecordingDetails") :
            IsAncestorOrSelf(tree, d, i)}

\* what is stated for the BitRate element i: with a number as text, one
\* UNUSUAL_BITRATE warning below 64 or above 320 and nothing from 64 to 320;
\* with a text that is no number, one INVALID_BITRATE error; one issue at
\* most in any case (an element without text, and the text "nan", which is
\* neither inside nor outside the range, are held to that only)
BitRateAsStated(tree, list, i) ==
    LET text == tree.elements[i].text
        number == float(text)
        issues == IssuesAt(tree, list, i)
        OneIssue(sev, code) ==
            /\ Len(issues) = 1
            /\ issues[1].severity = sev
            /\ issues[1].error_code = code
    IN /\ Len(issues) <= 1
       /\ (text # "" /\ number.kind = "error") => OneIssue(ERROR, "INVALID_BITRATE")
       /\ number.kind \in {"inf", "-inf"} => OneIssue(WARNING, "UNUSUAL_BITRATE")
       /\ number.kind = "value" =>
             IF number.value < 64 * Scale \/ number.value > 320 * Scale
             THEN OneIssue(WARNING, "UNUSUAL_BITRATE")
             ELSE issues = <<>>

\* C21 as stated: every BitRate element under technical sound-recording
\* details gets one UNUSUAL_BITRATE warning when its value is below 64 or
\* above 320, one INVALID_BITRATE error when its text is not numeric, nothing
\* when the value is from 64 to 320, and is never reported more than once
C21_Claim ==
    (rule = "validate_technical_details" /\ rule_result # NoResult) =>
        \A i \in BitRatesUnderDetails(root) :
            BitRateAsStated(root, rule_result.issues, i)

\* the number of issues of a list with the given code
Count(issues, code) == Len(SelectSeq(issues, LAMBDA x : x.error_code = code))

\* the issues of a list that the facade itself appended as detected-value
\* information
DetectedEntries(issues) ==
    SelectSeq(issues, LAMBDA x : x.error_code \in {"DDEX_VERSION_DETECTED",
                                                   "MESSAGE_TYPE_DETECTED"})

\* C22: the result validate_string returns for a parseable input holds in
\* info one DDEX_VERSION_DETECTED issue exactly when a version was detected
\* and one MESSAGE_TYPE_DETECTED issue exactly when a message type was
\* detected, behind every info issue of the checkers; these issues have
\* severity INFO under either strict_mode setting, are in neither errors nor
\* warnings, is_valid depends on the errors alone, and every error is a schema
\* error or a checker's issue, none being about a value that was not detected
C22_DetectedInfo ==
    (pc = "DONE" /\ doc.parse = "ok") =>
        LET detected == DetectedEntries(result.info)
            others == Len(result.info) - Len(detected)
        IN /\ Count(result.info, "DDEX_VERSION_DETECTED")
                 = (IF doc.version # None THEN 1 ELSE 0)
           /\ Count(result.info, "MESSAGE_TYPE_DETECTED")
                 = (IF doc.mtype # None THEN 1 ELSE 0)
           /\ SubSeq(result.info, others + 1, Len(result.info)) = detected
           /\ \A i \in 1..Len(detected) : detected[i].severity = INFO
           /\ DetectedEntries(result.errors) = <<>>
           /\ DetectedEntries(result.warnings) = <<>>
           /\ result.is_valid <=> (result.errors = <<>>)
           /\ \A i \in 1..Len(result.errors) :
                 \/ result.errors[i].src > 0
                 \/ \E k \in 1..Len(schema_errors) :
                       schema_errors[k] = result.errors[i]

\* the strict validator returned a valid result for a document whose version
\* and message type were detected: both entries are in info, in that order
C22_Witness ==
    /\ pc = "DONE"
    /\ cur = "strict"
    /\ doc.version # None
    /\ result.is_valid
    /\ Codes(result.info) = <<"DDEX_VERSION_DETECTED", "MESSAGE_TYPE_DETECTED">>
    /\ result.info[1].severity = INFO

\* the tag name without its namespace: what follows the last "}" of the tag
LocalName(tag) ==
    LET from == CHOOSE k \in 1..(Len(tag) + 1) :
                    /\ \A m \in k..Len(tag) : Char(tag, m) # "}"
                    /\ k > 1 => Char(tag, k - 1) = "}"
    IN SubSeq(tag, from, Len(tag))

\* the elements from the child of the root down to element i, in that order
\* (in the trees an element lies behind its parent)
PathNodes(tree, i) ==
    LET on == {a \in 1..Len(tree.elements) : IsAncestorOrSelf(tree, a, i)}
        Rank(a) == Cardinality({b \in on : b <= a})
    IN [k \in 1..Cardinality(on) |-> CHOOSE a \in on : Rank(a) = k]

\* the component of element a in a path as stated: its local name, and [n]
\* when its parent has several children with its tag, n being its place
\* among them
StatedComponent(tree, a) ==
    LET same == {j \in 1..Len(tree.elements) :
                    /\ tree.elements[j].parent = tree.elements[a].parent
                    /\ tree.elements[j].tag = tree.elements[a].tag}
        before == {j \in same : j < a}
    IN LocalName(tree.elements[a].tag)
       \o (IF same = {a} THEN ""
           ELSE "[" \o NatStr(Cardinality(before) + 1) \o "]")

\* the components joined, each behind a "/"
RECURSIVE Joined(_)
Joined(parts) ==
    IF parts = <<>> THEN "" ELSE "/" \o Head(parts) \o Joined(Tail(parts))

StatedPath(tree, i) ==
    LET nodes == PathNodes(tree, i)
    IN "/" \o LocalName(tree.tag)
       \o Joined([k \in 1..Len(nodes) |-> StatedComponent(tree, nodes[k])])

\* C23: _get_element_path returns "/" and the namespace-stripped tag names
\* from the root down to the node, joined by "/", a component carrying [n]
\* (the 1-based place of the element among the same-tag children of its
\* parent) exactly when the parent has more than one child with that tag,
\* the root and a sole occurrence carrying none; the path is a function of
\* the tree and the node
C23_ElementPath ==
    (rule = "_get_element_path" /\ rule_result # NoResult) =>
        rule_result.path = StatedPath(root, rule_result.node)

\* the path of the second of two namespaced ISRC children of a
\* SoundRecording: that component is indexed, the sole SoundRecording and the
\* root are not, the namespaces are gone
C23_Witness ==
    /\ rule = "_get_element_path"
    /\ rule_result # NoResult
    /\ root.tag = "{http://ddex.net/xml/ern/382}NewReleaseMessage"
    /\ rule_result.node = 3
    /\ rule_result.path = "/NewReleaseMessage/SoundRecording/ISRC[2]"
    /\ root.elements[3].tag = "{http://ddex.net/xml/ern/382}ISRC"

\* the SUSPICIOUS_ISRC_YEAR issues of a list
YearIssues(list) ==
    SelectSeq(list, LAMBDA x : x.error_code = "SUSPICIOUS_ISRC_YEAR")

\* what the identifier check reports about the year of the ISRC elements:
\* when Shown(text) matches the ISRC pattern, one SUSPICIOUS_ISRC_YEAR
\* warning exactly when the two digits at characters 5-6 (counted from 0)
\* are a number above (Y mod 100) + 10, 99 included and without any century
\* added, and no error; when Shown(text) fails the pattern, no such warning
ISRCYear(Shown(_)) ==
    (rule = "validate_identifiers" /\ rule_result # NoResult) =>
        \A i \in Nodes(root, "ISRC") :
            LET shown == Shown(root.elements[i].text)
                got == YearIssues(IssuesAt(root, rule_result.issues, i))
            IN IF MatchesISRC(shown)
               THEN LET yy == 10 * Digit(shown, 5) + Digit(shown, 6) IN
                    /\ \A k \in 1..Len(got) : got[k].severity = WARNING
                    /\ Len(got) = (IF yy > (rule_result.now % 100) + 10 THEN 1 ELSE 0)
                    /\ ErrorsAt(root, rule_result.issues, i) = <<>>
               ELSE got = <<>>

\* the text of the element as it stands
Unchanged(text) == text

\* C24 as stated: an ISRC whose text matches the pattern gets a
\* SUSPICIOUS_ISRC_YEAR warning exactly when yy > (Y mod 100) + 10 and no
\* error for the year; an ISRC whose text fails the pattern never gets the
\* warning
C24_Original == ISRCYear(Unchanged)

\* C24 as amended: the same with the pattern applied to the text without its
\* surrounding whitespace
C24_ISRCYear == ISRCYear(strip)

\* in 2026 the year codes 36 and 37 were checked: only 37 is suspicious
C24_Witness ==
    /\ rule = "validate_identifiers"
    /\ rule_result # NoResult
    /\ rule_result.now = 2026
    /\ Len(root.elements) = 2
    /\ root.elements[1].tag = "ISRC"
    /\ root.elements[1].text = "USRC13607839"
    /\ root.elements[2].tag = "ISRC"
    /\ root.elements[2].text = "USRC13707839"
    /\ Len(rule_result.issues) = 1
    /\ rule_result.issues[1].error_code = "SUSPICIOUS_ISRC_YEAR"
    /\ rule_result.issues[1].element_path = "/NewReleaseMessage/ISRC[2]"

\* every issue of the list has the given severity
AllOfSeverity(issues, sev) == \A i \in 1..Len(issues) : issues[i].severity = sev

\* the entries of a list that report finding i of the document
ReportsOf(issues, i) ==
    SelectSeq(issues, LAMBDA x : x.src = doc.findings[i].cat /\ x.key = i)

\* the warnings of the document that the checkers of the finished call
\* returned: those of a category that was called and did not raise
ReturnedWarnings ==
    {i \in 1..Len(doc.findings) :
        /\ doc.findings[i].kind = WARNING
        /\ doc.findings[i].cat \in ran
        /\ ~\E j \in 1..Len(doc.findings) :
              doc.findings[j].cat = doc.findings[i].cat /\ doc.findings[j].kind = RAISE}

\* C25: in every result validate_string returned, the issues in errors have
\* severity ERROR, those in warnings WARNING and those in info INFO; a warning
\* the checkers returned to a strict validator is in errors exactly once, its
\* severity field reading ERROR, and is not in warnings
C25_SeverityAgrees ==
    /\ \A v \in Validators :
          results[v] \notin {NoResult, Raised} =>
              /\ AllOfSeverity(results[v].errors, ERROR)
              /\ AllOfSeverity(results[v].warnings, WARNING)
              /\ AllOfSeverity(results[v].info, INFO)
    /\ (pc = "DONE" /\ strict_mode(cur)) =>
          \A i \in ReturnedWarnings :
              /\ Len(ReportsOf(result.errors, i)) = 1
              /\ ReportsOf(result.errors, i)[1].severity = ERROR
              /\ ReportsOf(result.errors, i)[1].error_code
                    = CodeOf(doc.findings[i].cat, WARNING)
              /\ ReportsOf(result.warnings, i) = <<>>

\* the strict validator returned a result whose errors hold a promoted
\* warning behind an error
C25_Witness ==
    /\ pc = "DONE"
    /\ strict_mode(cur)
    /\ Len(doc.findings) = 2
    /\ doc.findings[1].kind = ERROR
    /\ doc.findings[2].kind = WARNING
    /\ ReturnedWarnings = {2}
    /\ Len(result.errors) = 2
    /\ result.errors[2].severity = ERROR
    /\ result.errors[2].error_code = CodeOf(doc.findings[2].cat, WARNING)
    /\ result.warnings = <<>>

\* C26: a validate_string call whose input does not parse leaves the schema
\* cache as it was: get_cache_info gives the value it gave before the call,
\* no schema path was looked up and no schema was loaded
C26_ParseFailureKeepsCache ==
    (session.op = "validate_string" /\ doc.parse # "ok") =>
        /\ get_cache_info(schema_cache[cur]) = session.before
        /\ ~session.looked
        /\ ~session.loaded

\* a text that does not parse was given to a validator whose cache held both
\* schemas
C26_Witness ==
    /\ session.op = "validate_string"
    /\ doc.parse # "ok"
    /\ pc = "PARSE_FAILED"
    /\ session.before.cached_schemas = 2
    /\ get_cache_info(schema_cache[cur]).schema_paths = SchemaFiles

\* the schema paths in a sequence of loads
LoadedPaths(loads) == {loads[i] : i \in 1..Len(loads)}

\* C27: in sequential use of one validator the keys of the schema cache are
\* the schema paths loaded successfully since the last clear_cache, no path
\* is loaded twice between two clear_cache calls, a failed load inserts no
\* entry and is reported as SCHEMA_LOAD_ERROR by every validation that meets
\* it, and clear_cache leaves the cache empty
C27_CacheKeys ==
    /\ schema_cache[cur] = LoadedPaths(session.loads)
    /\ \A i, j \in 1..Len(session.loads) :
          session.loads[i] = session.loads[j] => i = j
    /\ session.op = "clear_cache" => get_cache_info(schema_cache[cur]).cached_schemas = 0
    /\ (/\ session.op = "validate_string"
        /\ doc.parse = "ok"
        /\ doc.env.lookup = "found"
        /\ doc.env.load = "fails")
       => /\ doc.env.path \notin schema_cache[cur]
          /\ get_cache_info(schema_cache[cur]) = session.before
          /\ ~session.loaded
          /\ result # Raised
          /\ Codes(result.errors) = <<"SCHEMA_LOAD_ERROR">>

\* the third call validates against a schema that an earlier call loaded,
\* while another schema is in the cache as well: nothing is loaded
C27_Witness ==
    /\ session.op = "validate_string"
    /\ session.calls = 3
    /\ session.looked
    /\ ~session.loaded
    /\ doc.env.lookup = "found"
    /\ doc.env.load = "ok"
    /\ Len(session.loads) = 2
    /\ doc.env.path \in schema_cache[cur]
    /\ schema_cache[cur] = LoadedPaths(session.loads)

\* what the same call returns on a validator constructed for it (line 33: an
\* empty cache) with the same settings in the same schema directory
OnFreshValidator ==
    ValidateString(doc, {}, strict_mode(cur), use_business_rules).result

\* C29: a validation after any sequence of validations and clear_cache calls
\* on the same validator returns the error, warning and info codes, in the
\* same order, that a fresh validator returns for the document (and raises
\* exactly when the fresh validator raises)
C29_NoDependenceOnHistory ==
    session.op = "validate_string" =>
        IF result = Raised
        THEN OnFreshValidator = Raised
        ELSE /\ OnFreshValidator # Raised
             /\ Codes(result.errors) = Codes(OnFreshValidator.errors)
             /\ Codes(result.warnings) = Codes(OnFreshValidator.warnings)
             /\ Codes(result.info) = Codes(OnFreshValidator.info)

\* the third call validates a document that is invalid against a schema an
\* earlier call has put into the cache, and the result has an error
C29_Witness ==
    /\ session.op = "validate_string"
    /\ session.calls = 3
    /\ doc.parse = "ok"
    /\ doc.env.lookup = "found"
    /\ doc.env.validate = "invalid"
    /\ doc.env.path \in session.before.schema_paths
    /\ ~session.loaded
    /\ result # Raised
    /\ Codes(result.errors) = <<"SCHEMA_VALIDATION_ERROR">>

\* the sum of the counts a dictionary holds for the given keys
RECURSIVE SumOver(_, _)
SumOver(dict, keys) ==
    IF keys = {} THEN 0
    ELSE LET k == CHOOSE key \in keys : TRUE
         IN dict[k] + SumOver(dict, keys \ {k})

SumOfCounts(dict) == SumOver(dict, DOMAIN dict)

\* the sum of the lengths of the named list over the results added
RECURSIVE TotalLength(_, _)
TotalLength(field, i) ==
    IF i > Len(added) THEN 0
    ELSE Len(added[i][field]) + TotalLength(field, i + 1)

\* every error of every result added has a code
EveryErrorHasCode ==
    \A i \in 1..Len(added) : \A j \in 1..Len(added[i].errors) :
        Truthy(added[i].errors[j].error_code)

\* C28: after any sequence of add_result calls total_files is the number of
\* calls and is valid_files + invalid_files, total_errors and total_warnings
\* are the sums of the lengths of the errors and warnings lists added, the
\* counts of error_codes sum to at most total_errors (to total_errors when
\* every error has a code), and the counts of message_types and of
\* ddex_versions each sum to at most total_files
C28_Statistics ==
    /\ stats.total_files = Len(added)
    /\ stats.total_files = stats.valid_files + stats.invalid_files
    /\ stats.total_errors = TotalLength("errors", 1)
    /\ stats.total_warnings = TotalLength("warnings", 1)
    /\ SumOfCounts(stats.error_codes) <= stats.total_errors
    /\ EveryErrorHasCode => SumOfCounts(stats.error_codes) = stats.total_errors
    /\ SumOfCounts(stats.message_types) <= stats.total_files
    /\ SumOfCounts(stats.ddex_versions) <= stats.total_files

\* two results were added, an invalid one among them, with three errors of
\* which one has no code, and one of them without a message type
C28_Witness ==
    /\ Len(added) = 2
    /\ stats.invalid_files >= 1
    /\ stats.total_errors = 3
    /\ SumOfCounts(stats.error_codes) = 2
    /\ SumOfCounts(stats.message_types) = 1
    /\ stats.total_warnings = 1

\* the business rules are disabled for the running call: by its argument
\* when that is not None, by the validator's setting otherwise
EffectivelyDisabled ==
    IF arg # "None" THEN arg = "False" ELSE ~enable_business_rules

\* a result of a call with the business rules disabled: no warnings, the
\* errors of the schema validation, the detection entries as info
SchemaOnly(r) ==
    /\ r.warnings = <<>>
    /\ r.errors = schema_errors
    /\ Codes(r.info) = Codes(DetectedInfo(doc.version, doc.mtype))

\* a result without warnings whose info has detection entries only
NothingFromRules(r) ==
    /\ r.warnings = <<>>
    /\ \A i \in 1..Len(r.info) :
          r.info[i].error_code \in {"DDEX_VERSION_DETECTED", "MESSAGE_TYPE_DETECTED"}

\* C30: the enable_business_rules argument of validate_string and
\* validate_file, when not None, decides instead of the validator's setting
\* whether the checkers run; every result of a call with the business rules
\* disabled has no warnings and only detection entries as info, and when the
\* call came to the schema validation its errors are exactly the schema
\* errors and its info the detection entries, on the strict validator as on
\* the normal
C30_Override ==
    /\ (pc \in {"DONE", "PARSE_FAILED"} /\ EffectivelyDisabled) =>
          /\ ran = {}
          /\ NothingFromRules(result)
    /\ (pc = "DONE" /\ EffectivelyDisabled) => SchemaOnly(result)
    /\ (pc = "DONE" /\ ~EffectivelyDisabled /\ ~_has_critical_errors(schema_errors))
          => ran # {}
    /\ (pc = "FILE_DONE" /\ EffectivelyDisabled) =>
          /\ ran = {}
          /\ NothingFromRules(file_result)
    /\ (/\ pc = "FILE_DONE"
        /\ EffectivelyDisabled
        /\ doc.parse = "ok"
        /\ file_result.file_path # None)
       => SchemaOnly(file_result)

\* the strict validator was constructed with the business rules enabled and
\* called with the argument False on a document in which the checkers
\* would find something and which the schema rejects
C30_Witness ==
    /\ pc = "DONE"
    /\ cur = "strict"
    /\ enable_business_rules
    /\ arg = "False"
    /\ doc.findings # <<>>
    /\ result.errors # <<>>
    /\ ~_has_critical_errors(schema_errors)
    /\ SchemaOnly(result)

====
